---- MODULE Spec2Model ----
(***************************************************************************)
(* Model of the docker-compose version tooling of ilan-open-webui:         *)
(*   version_number_collector.py  (tag selection, batch collector)         *)
(*   update_compose_versions.py   (replace mode, regex over whole text)    *)
(*   version_docker_compose.py    (combined annotate / replace, by line)   *)
(*   add_version_comments.py      (stand-alone annotate, by line)          *)
(* Text is modelled as sequences of one-character strings, so that the     *)
(* regular expressions and string operations of the scripts are computed   *)
(* character by character.                                                 *)
(***************************************************************************)
EXTENDS Integers, Sequences, FiniteSets, TLC

VARIABLES
    tags,               \* find_latest_version: the tag list handed to it
    latest_version,     \* find_latest_version: its return value
    image_idx,          \* collector main: position in IMAGES_TO_CHECK
    fetched,            \* collector main: outcome of the registry call
    results,            \* collector main: successful_images (dict)
    failed_images,      \* collector main: failed_images (list)
    col_pc,             \* collector main: "fetch", "record" or "done"
    content,            \* rewriters: text of the compose document read
    container_versions, \* rewriters: version_data["container_versions"]
    new_content,        \* rewriters: text written to the output file
    changes,            \* rewriters: change records of the last pass
    script,             \* rewriters: which script ran last
    passes,             \* rewriters: number of passes applied so far
    cmp_idx,            \* checker main: position in CONTAINERS_TO_CHECK
    latest_versions,    \* checker main: latest_versions (dict)
    compose_versions,   \* checker main: compose_versions (dict)
    comparison_results, \* checker main: comparison_results (list)
    cmp_pc,             \* checker main: "fetch", "extract", "compare", "write", "done"
    compose_file,       \* a run: the compose file is "ok", "missing" or "invalid"
    json_file,          \* a run: the version file is "ok", "missing" or "invalid"
    backup_made,        \* a run: the backup copy of the compose file exists
    output_written,     \* a run: the output file has been written
    exit_status,        \* a run: exit status of the process, -1 while it runs
    run_pc,             \* a run: the step main is at
    fetcher,            \* a tag fetcher call: "dockerhub", "ghcr" or "quay"
    pages,              \* a tag fetcher call: the answers the registry serves
    url,                \* a tag fetcher call: the page to request next, 0 for None
    fetch_tags,         \* get_dockerhub_tags: tags, the names gathered so far
    requested,          \* a tag fetcher call: how often each page was requested
    fetch_outcome,      \* a tag fetcher call: its return value
    fetch_pc,           \* a tag fetcher call: "request" or "done"
    user_messages,      \* memory filter: self.user_messages
    STORE_CYCLES,       \* memory filter: self.valves.STORE_CYCLES
    stored,             \* memory filter: the texts handed to self.m.add
    last_call,          \* memory filter: the method called last
    memories,           \* auto-memory: ids of the memories stored for the user
    next_id,            \* auto-memory: id the next added memory gets
    store_result,       \* auto-memory: what store_memory returned last
    deleted,            \* auto-memory: ids the last store_memory call deleted
    pipe_pc,            \* Gemini pipe: the step the request is at
    timer_pc,           \* Gemini pipe: state of the thinking_timer task
    emitter,            \* Gemini pipe: the event emitter is "async" or "sync"
    events,             \* Gemini pipe: the events the emitter has received
    callbacks,          \* Gemini pipe: events handed to loop.call_soon_threadsafe
    ticks,              \* Gemini pipe: number of sleeps the timer has finished
    pipe_result         \* Gemini pipe: what the request returns

selVars == <<tags, latest_version>>
colVars == <<image_idx, fetched, results, failed_images, col_pc>>
rwVars  == <<content, container_versions, new_content, changes, script, passes>>
cmpVars == <<cmp_idx, latest_versions, compose_versions, comparison_results, cmp_pc>>
runVars == <<compose_file, json_file, backup_made, output_written, exit_status, run_pc>>
fetchVars == <<fetcher, pages, url, fetch_tags, requested, fetch_outcome, fetch_pc>>
memVars == <<user_messages, STORE_CYCLES, stored, last_call>>
autoVars == <<memories, next_id, store_result, deleted>>
gemVars == <<pipe_pc, timer_pc, emitter, events, callbacks, ticks, pipe_result>>
\* The variables of the registry calls and of the open-webui functions.
extVars == <<fetchVars, memVars, autoVars, gemVars>>
vars    == <<tags, latest_version, image_idx, fetched, results, failed_images, col_pc,
             content, container_versions, new_content, changes, script, passes,
             cmp_idx, latest_versions, compose_versions, comparison_results, cmp_pc,
             compose_file, json_file, backup_made, output_written, exit_status, run_pc,
             fetcher, pages, url, fetch_tags, requested, fetch_outcome, fetch_pc,
             user_messages, STORE_CYCLES, stored, last_call,
             memories, next_id, store_result, deleted,
             pipe_pc, timer_pc, emitter, events, callbacks, ticks, pipe_result>>

----------------------------------------------------------------------------
(* Characters and strings                                                  *)

DigitChars == <<"0", "1", "2", "3", "4", "5", "6", "7", "8", "9">>
Digits == {DigitChars[i] : i \in 1..10}
DigitVal(c) == (CHOOSE i \in 1..10 : DigitChars[i] = c) - 1

\* Letters in the order Python compares them (code point order).
LetterChars == <<"K", "N", "O", "U", "V", "W", "a", "b", "c", "d", "e", "f", "g", "h", "i", "j", "k",
                 "l", "m", "n", "o", "p", "q", "r", "s", "t", "u", "v", "w", "x",
                 "y", "z">>
Letters == {LetterChars[i] : i \in 1..Len(LetterChars)}

\* \s, \w and . of Python's re module, over the characters the model uses.
Space == {" ", "\t", "\n"}
Word == Letters \cup Digits \cup {"_"}

\* Python's None, and the marker of a variable that holds nothing yet.
NoneVal == <<"<None>">>
Unset == <<"<unset>">>

\* s.startswith(p) at position i (1-based).
HasPrefixAt(s, i, p) ==
    /\ i + Len(p) - 1 <= Len(s)
    /\ SubSeq(s, i, i + Len(p) - 1) = p

StartsWith(s, p) == HasPrefixAt(s, 1, p)

\* c in s
Contains(s, c) == \E i \in 1..Len(s) : s[i] = c

\* The first position at or after i whose character is not in class C: the end
\* of a greedy C* that starts at i.
RECURSIVE SpanEnd(_, _, _)
SpanEnd(s, i, C) ==
    IF i <= Len(s) /\ s[i] \in C THEN SpanEnd(s, i + 1, C) ELSE i

\* int(ds) for a sequence of digits.
RECURSIVE ToInt(_)
ToInt(ds) ==
    IF ds = <<>> THEN 0
    ELSE 10 * ToInt(SubSeq(ds, 1, Len(ds) - 1)) + DigitVal(ds[Len(ds)])

\* s from position i to its end.
From(s, i) == SubSeq(s, i, Len(s))

\* '$' of a pattern without re.MULTILINE also matches before one final newline.
DropFinalNewline(s) ==
    IF s # <<>> /\ s[Len(s)] = "\n" THEN SubSeq(s, 1, Len(s) - 1) ELSE s

\* Insertion-ordered dictionaries as sequences of <<key, value>>.
DictHas(d, k) == \E i \in 1..Len(d) : d[i][1] = k
DictGet(d, k) == d[CHOOSE i \in 1..Len(d) : d[i][1] = k][2]
DictPut(d, k, v) ==
    IF DictHas(d, k)
    THEN [i \in 1..Len(d) |-> IF d[i][1] = k THEN <<d[i][1], v>> ELSE d[i]]
    ELSE Append(d, <<k, v>>)
DictKeys(d) == {d[i][1] : i \in 1..Len(d)}

----------------------------------------------------------------------------
(* packaging.version: parse and the ordering of Version objects.           *)
(* The model follows packaging >= 22, where parse() raises InvalidVersion   *)
(* for a string outside PEP 440 (the exception parse_version catches).      *)
(* Epochs ("N!") and upper-case spellings are not in the model's alphabet.  *)

\* s.split(c)
RECURSIVE SplitOn(_, _)
SplitOn(s, c) ==
    IF ~Contains(s, c) THEN <<s>>
    ELSE LET i == CHOOSE j \in 1..Len(s) : s[j] = c /\ \A k \in 1..(j - 1) : s[k] # c
         IN <<SubSeq(s, 1, i - 1)>> \o SplitOn(From(s, i + 1), c)

\* Alternatives of VERSION_PATTERN in the order the pattern lists them.
PreLabels == << <<"a", "l", "p", "h", "a">>, <<"a">>, <<"b", "e", "t", "a">>, <<"b">>,
                <<"p", "r", "e", "v", "i", "e", "w">>, <<"p", "r", "e">>, <<"c">>,
                <<"r", "c">> >>
\* _parse_letter_version: alpha -> a, beta -> b, c/pre/preview -> rc; a < b < rc.
PreRank == <<0, 0, 1, 1, 2, 2, 2, 2>>
PostLabels == << <<"p", "o", "s", "t">>, <<"r", "e", "v">>, <<"r">> >>
DevLabels == << <<"d", "e", "v">> >>
Seps == {"-", "_", "."}
LocalChars == (Letters \ {"K", "N", "O", "U", "V", "W"}) \cup Digits

\* The first alternative of labels that s holds at position i, 0 when none does.
MatchLabel(s, i, labels) ==
    LET hits == {k \in 1..Len(labels) : HasPrefixAt(s, i, labels[k])}
    IN IF hits = {} THEN 0 ELSE CHOOSE k \in hits : \A j \in hits : k <= j

\* The end of [0-9]+(?:\.[0-9]+)* given the end i of its first digit run.
RECURSIVE ReleaseEnd(_, _)
ReleaseEnd(s, i) ==
    IF i + 1 <= Len(s) /\ s[i] = "." /\ s[i + 1] \in Digits
    THEN ReleaseEnd(s, SpanEnd(s, i + 1, Digits))
    ELSE i

\* [-_\.]? at position i
SkipSep(s, i) == IF i <= Len(s) /\ s[i] \in Seps THEN i + 1 ELSE i

\* <label>[-_\.]?[0-9]* at position i, preceded by [-_\.]?: <<k, n, end>>, with
\* k the alternative matched (0: the segment is absent and end = i).
LetterSegment(s, i, labels) ==
    LET a == SkipSep(s, i)
        k == MatchLabel(s, a, labels)
    IN IF k = 0 THEN <<0, 0, i>>
       ELSE LET b == SkipSep(s, a + Len(labels[k]))
                e == SpanEnd(s, b, Digits)
            IN <<k, ToInt(SubSeq(s, b, e - 1)), e>>

\* The end of [a-z0-9]+(?:[-_\.][a-z0-9]+)* given the end i of its first run.
RECURSIVE LocalEnd(_, _)
LocalEnd(s, i) ==
    IF i + 1 <= Len(s) /\ s[i] \in Seps /\ s[i + 1] \in LocalChars
    THEN LocalEnd(s, SpanEnd(s, i + 1, LocalChars))
    ELSE i

\* Trailing zeros of a release do not count: 1.10.0 == 1.10 (_cmpkey).
RECURSIVE StripZeros(_)
StripZeros(r) ==
    IF r # <<>> /\ r[Len(r)] = 0 THEN StripZeros(SubSeq(r, 1, Len(r) - 1)) ELSE r

\* One part of a local version: numbers sort after words (_parse_local_version).
LocalPart(p) ==
    IF \A i \in 1..Len(p) : p[i] \in Digits THEN <<1, ToInt(p), <<>>>> ELSE <<0, 0, p>>

RECURSIVE SplitSeps(_)
SplitSeps(s) ==
    LET e == SpanEnd(s, 1, LocalChars)
    IN IF e > Len(s) THEN <<s>> ELSE <<SubSeq(s, 1, e - 1)>> \o SplitSeps(From(s, e + 1))

InvalidVersion == [ok |-> FALSE]

\* The Version once every segment is read; its fields are the comparison key
\* of _cmpkey. A segment is <<alternative matched (0: absent), number, end>>.
MakeVersion(s, release, pre, post, dev, hasLocal, localEnd) ==
    IF localEnd # Len(s) + 1 THEN InvalidVersion
    ELSE [ok |-> TRUE,
          release |-> StripZeros(release),
          pre |-> IF pre[1] = 0 /\ post[1] = 0 /\ dev[1] # 0 THEN <<-1, 0>>
                  ELSE IF pre[1] = 0 THEN <<3, 0>>
                  ELSE <<PreRank[pre[1]], pre[2]>>,
          post |-> IF post[1] = 0 THEN -1 ELSE post[2],
          dev |-> IF dev[1] = 0 THEN <<1, 0>> ELSE <<0, dev[2]>>,
          local |-> IF hasLocal
                    THEN [i \in 1..Len(SplitSeps(SubSeq(s, dev[3] + 1, localEnd - 1)))
                            |-> LocalPart(SplitSeps(SubSeq(s, dev[3] + 1, localEnd - 1))[i])]
                    ELSE <<>>]

\* (?:\+(?P<local>[a-z0-9]+(?:[-_\.][a-z0-9]+)*))? at the end p of the dev segment.
ParseLocal(s, release, pre, post, dev, p) ==
    IF p + 1 <= Len(s) /\ s[p] = "+" /\ s[p + 1] \in LocalChars
    THEN MakeVersion(s, release, pre, post, dev, TRUE,
                     LocalEnd(s, SpanEnd(s, p + 1, LocalChars)))
    ELSE MakeVersion(s, release, pre, post, dev, FALSE, p)

ParseDev(s, release, pre, post, dev) == ParseLocal(s, release, pre, post, dev, dev[3])

\* The post segment at position p: -N, or a post|rev|r letter segment.
PostSegment(s, p) ==
    IF p + 1 <= Len(s) /\ s[p] = "-" /\ s[p + 1] \in Digits
    THEN <<1, ToInt(SubSeq(s, p + 1, SpanEnd(s, p + 1, Digits) - 1)),
           SpanEnd(s, p + 1, Digits)>>
    ELSE LetterSegment(s, p, PostLabels)

ParsePost(s, release, pre, post) ==
    ParseDev(s, release, pre, post, LetterSegment(s, post[3], DevLabels))

ParsePre(s, release, pre) == ParsePost(s, release, pre, PostSegment(s, pre[3]))

\* The numbers of a dotted release.
ReleaseNumbers(parts) == [i \in 1..Len(parts) |-> ToInt(parts[i])]

\* The release [0-9]+(?:\.[0-9]+)* from i0, whose first digit run ends at d1.
ParseRelease(s, i0, d1, r) ==
    IF d1 = i0 THEN InvalidVersion
    ELSE ParsePre(s, ReleaseNumbers(SplitOn(SubSeq(s, i0, r - 1), ".")),
                  LetterSegment(s, r, PreLabels))

ParseFrom(s, i0, d1) == ParseRelease(s, i0, d1, ReleaseEnd(s, d1))

\* version.parse(s): InvalidVersion, or the Version as its comparison key.
version_parse(s) ==
    IF StartsWith(s, <<"v">>) THEN ParseFrom(s, 2, SpanEnd(s, 2, Digits))
    ELSE ParseFrom(s, 1, SpanEnd(s, 1, Digits))

\* Code point order of the characters of a local version part.
CharOrder == DigitChars \o LetterChars
CharRank(c) == CHOOSE i \in 1..Len(CharOrder) : CharOrder[i] = c

\* a < b for tuples of integers, as Python compares tuples.
RECURSIVE IntSeqLess(_, _)
IntSeqLess(a, b) ==
    IF b = <<>> THEN FALSE
    ELSE IF a = <<>> THEN TRUE
    ELSE IF a[1] # b[1] THEN a[1] < b[1]
    ELSE IntSeqLess(Tail(a), Tail(b))

StrRanks(p) == [i \in 1..Len(p) |-> CharRank(p[i])]

LocalPartLess(x, y) ==
    IF x[1] # y[1] THEN x[1] < y[1]
    ELSE IF x[2] # y[2] THEN x[2] < y[2]
    ELSE IntSeqLess(StrRanks(x[3]), StrRanks(y[3]))

RECURSIVE LocalLess(_, _)
LocalLess(a, b) ==
    IF b = <<>> THEN FALSE
    ELSE IF a = <<>> THEN TRUE
    ELSE IF a[1] # b[1] THEN LocalPartLess(a[1], b[1])
    ELSE LocalLess(Tail(a), Tail(b))

\* Version.__lt__: the keys compared field by field.
VersionLess(a, b) ==
    IF a.release # b.release THEN IntSeqLess(a.release, b.release)
    ELSE IF a.pre # b.pre THEN IntSeqLess(a.pre, b.pre)
    ELSE IF a.post # b.post THEN a.post < b.post
    ELSE IF a.dev # b.dev THEN IntSeqLess(a.dev, b.dev)
    ELSE LocalLess(a.local, b.local)

\* Mutant of MaxKey: min() in place of max().
MaxKey_min(d) ==
    d[CHOOSE i \in 1..Len(d) : \A j \in 1..Len(d) : ~VersionLess(d[j][1], d[i][1])][1]

\* max(d.keys()): the first key that no other key exceeds.
MaxKey(d) ==
    d[CHOOSE i \in 1..Len(d) : \A j \in 1..Len(d) : ~VersionLess(d[i][1], d[j][1])][1]

----------------------------------------------------------------------------
(* version_number_collector.py: tag selection                              *)

\* ^v?(\d+)\.(\d+)\.(\d+) at the start of tag: <<start of the digits, end>>,
\* the end being 0 when the tag does not start with three dotted numbers.
SemverCore(tag) ==
    LET i0 == IF StartsWith(tag, <<"v">>) THEN 2 ELSE 1
        a == SpanEnd(tag, i0, Digits)
        b == SpanEnd(tag, a + 1, Digits)
        c == SpanEnd(tag, b + 1, Digits)
    IN IF /\ a > i0 /\ a <= Len(tag) /\ tag[a] = "."
          /\ b > a + 1 /\ b <= Len(tag) /\ tag[b] = "."
          /\ c > b + 1
       THEN <<i0, c>> ELSE <<i0, 0>>

\* re.match(r'^v?(\d+)\.(\d+)\.(\d+)([-+].*)?$', tag)
is_semantic_version(tag) ==
    LET core == SemverCore(tag)
        rest == DropFinalNewline(From(tag, core[2]))
    IN /\ core[2] # 0
       /\ \/ rest = <<>>
          \/ rest[1] \in {"-", "+"} /\ ~Contains(rest, "\n")

\* str.strip() of the blanks the model knows.
RECURSIVE Strip(_)
Strip(s) ==
    IF s # <<>> /\ s[1] \in Space THEN Strip(Tail(s))
    ELSE IF s # <<>> /\ s[Len(s)] \in Space THEN Strip(SubSeq(s, 1, Len(s) - 1))
    ELSE s

\* The text up to the first newline: what '.*' can take.
FirstLine(s) == SplitOn(s, "\n")[1]

\* parse_version(tag): the Version of the tag without its 'v', or None
\* (InvalidVersion stands for None here: both are "no version").
parse_version(tag) ==
    LET core == SemverCore(tag)
    IN IF core[2] = 0 THEN InvalidVersion
       ELSE version_parse(Strip(FirstLine(From(tag, core[1]))))

\* Mutant of SemanticVersions: stores the text that was parsed (the tag without
\* its 'v') in place of the original tag.
RECURSIVE SemanticVersions_stripped(_)
SemanticVersions_stripped(ts) ==
    IF ts = <<>> THEN <<>>
    ELSE LET d == SemanticVersions_stripped(SubSeq(ts, 1, Len(ts) - 1))
             tag == ts[Len(ts)]
         IN IF is_semantic_version(tag) /\ parse_version(tag).ok
            THEN DictPut(d, parse_version(tag), From(tag, SemverCore(tag)[1]))
            ELSE d

\* Mutant of SemanticVersions: a Version that is already a key keeps the tag
\* stored first.
RECURSIVE SemanticVersions_keepfirst(_)
SemanticVersions_keepfirst(ts) ==
    IF ts = <<>> THEN <<>>
    ELSE LET d == SemanticVersions_keepfirst(SubSeq(ts, 1, Len(ts) - 1))
             tag == ts[Len(ts)]
         IN IF is_semantic_version(tag) /\ parse_version(tag).ok
               /\ ~DictHas(d, parse_version(tag))
            THEN DictPut(d, parse_version(tag), tag)
            ELSE d

\* The dict built by the loop of lines 107-112: Version -> original tag; a tag
\* whose Version is already a key overwrites the value stored under it.
RECURSIVE SemanticVersions(_)
SemanticVersions(ts) ==
    IF ts = <<>> THEN <<>>
    ELSE LET d == SemanticVersions(SubSeq(ts, 1, Len(ts) - 1))
             tag == ts[Len(ts)]
         IN IF is_semantic_version(tag) /\ parse_version(tag).ok
            THEN DictPut(d, parse_version(tag), tag)
            ELSE d

\* re.match(r'^(\d+)\.(\d+)$', tag) or re.match(r'^(\d+)$', tag)
IsBareNumeric(tag) ==
    LET t == DropFinalNewline(tag)
        a == SpanEnd(t, 1, Digits)
        b == SpanEnd(t, a + 1, Digits)
    IN /\ a > 1
       /\ \/ a > Len(t)
          \/ t[a] = "." /\ b > a + 1 /\ b > Len(t)

\* The dict built by the fallback loop of lines 116-123.
RECURSIVE NumericVersions(_)
NumericVersions(ts) ==
    IF ts = <<>> THEN <<>>
    ELSE LET d == NumericVersions(SubSeq(ts, 1, Len(ts) - 1))
             tag == ts[Len(ts)]
         IN IF IsBareNumeric(tag) /\ version_parse(Strip(tag)).ok
            THEN DictPut(d, version_parse(Strip(tag)), tag)
            ELSE d

\* Mutant of find_latest_version: the numeric candidates are looked at first.
find_latest_version_numeric_first(ts) ==
    LET semantic_versions == SemanticVersions(ts)
        numeric_versions == NumericVersions(ts)
    IN IF ts = <<>> THEN NoneVal
       ELSE IF numeric_versions # <<>>
       THEN DictGet(numeric_versions, MaxKey(numeric_versions))
       ELSE IF semantic_versions = <<>> THEN NoneVal
       ELSE DictGet(semantic_versions, MaxKey(semantic_versions))

\* find_latest_version(tags): a tag, or None.
find_latest_version(ts) ==
    LET semantic_versions == SemanticVersions(ts)
        numeric_versions == NumericVersions(ts)
    IN IF ts = <<>> THEN NoneVal
       ELSE IF semantic_versions = <<>>
       THEN IF numeric_versions # <<>>
            THEN DictGet(numeric_versions, MaxKey(numeric_versions))
            ELSE NoneVal
       ELSE DictGet(semantic_versions, MaxKey(semantic_versions))

\* Tags the registries of the listed images publish, one of each shape.
Tag_1_2_3 == <<"1", ".", "2", ".", "3">>
Tag_1_10_0 == <<"1", ".", "1", "0", ".", "0">>
Tag_1_9_9 == <<"1", ".", "9", ".", "9">>
Tag_v1_10_0 == <<"v", "1", ".", "1", "0", ".", "0">>
Tag_1_10_0_rc1 == <<"1", ".", "1", "0", ".", "0", "-", "r", "c", "1">>
Tag_1_2_3_alpine == <<"1", ".", "2", ".", "3", "-", "a", "l", "p", "i", "n", "e">>
Tag_5 == <<"5">>
Tag_5_0 == <<"5", ".", "0">>
Tag_12 == <<"1", "2">>
Tag_2_36 == <<"2", ".", "3", "6">>
Tag_latest == <<"l", "a", "t", "e", "s", "t">>
Tag_main == <<"m", "a", "i", "n">>
TagPool == {Tag_1_2_3, Tag_1_10_0, Tag_1_9_9, Tag_v1_10_0, Tag_1_10_0_rc1,
            Tag_1_2_3_alpine, Tag_5, Tag_5_0, Tag_12, Tag_2_36, Tag_latest, Tag_main}

\* Longest tag list handed to find_latest_version.
MaxTags == 3
TagLists == UNION {[1..n -> TagPool] : n \in 0..MaxTags}

IdleCollector ==
    /\ image_idx = 0 /\ fetched = [state |-> "unset", tags |-> <<>>]
    /\ results = <<>> /\ failed_images = <<>> /\ col_pc = "idle"
IdleRewriter ==
    /\ content = <<>> /\ container_versions = <<>> /\ new_content = Unset
    /\ changes = <<>> /\ passes = 0
    /\ script = [name |-> "none", update_tags |-> FALSE, skip_existing |-> FALSE]

IdleChecker ==
    /\ cmp_idx = 0 /\ latest_versions = <<>> /\ compose_versions = <<>>
    /\ comparison_results = <<>> /\ cmp_pc = "idle"
IdleRun ==
    /\ compose_file = "ok" /\ json_file = "ok" /\ backup_made = FALSE
    /\ output_written = FALSE /\ exit_status = -1 /\ run_pc = "idle"
IdleFetcher ==
    /\ fetcher = "none" /\ pages = <<>> /\ url = 0 /\ fetch_tags = <<>>
    /\ requested = <<>> /\ fetch_outcome = Unset /\ fetch_pc = "idle"
IdleMemoryFilter ==
    /\ user_messages = <<>> /\ STORE_CYCLES = 3 /\ stored = <<>> /\ last_call = "none"
IdleAutoMemory ==
    /\ memories = {} /\ next_id = 1 /\ deleted = {}
    /\ store_result = [success |-> FALSE, added_memories |-> 0, called |-> FALSE]
IdleGemini ==
    /\ pipe_pc = "idle" /\ timer_pc = "none" /\ emitter = "async"
    /\ events = <<>> /\ callbacks = <<>> /\ ticks = 0 /\ pipe_result = "none"

InitSelect ==
    /\ tags \in TagLists
    /\ latest_version = Unset
    /\ IdleCollector
    /\ IdleRewriter
    /\ IdleChecker
    /\ IdleRun
    /\ IdleFetcher /\ IdleMemoryFilter /\ IdleAutoMemory /\ IdleGemini

\* One call of find_latest_version.
Select ==
    /\ latest_version = Unset
    /\ latest_version' = find_latest_version(tags)
    /\ UNCHANGED <<tags, colVars, rwVars, cmpVars, runVars, extVars>>

NextSelect == Select
SpecSelect == InitSelect /\ [][NextSelect]_vars

----------------------------------------------------------------------------
(* The properties of find_latest_version                                    *)

\* The (major, minor, patch) numbers of a tag that starts with them, read as
\* integers straight from its digits.
Triple(tag) ==
    LET core == SemverCore(tag)
        parts == SplitOn(SubSeq(tag, core[1], core[2] - 1), ".")
    IN <<ToInt(parts[1]), ToInt(parts[2]), ToInt(parts[3])>>

TripleLeq(a, b) ==
    \/ a[1] < b[1]
    \/ a[1] = b[1] /\ a[2] < b[2]
    \/ a[1] = b[1] /\ a[2] = b[2] /\ a[3] <= b[3]

\* A tag that matches the semantic-version pattern and parses as a version.
Parsable(tag) == is_semantic_version(tag) /\ parse_version(tag).ok

Selected == latest_version # Unset

\* C1: find_latest_version returns None or an element of the list, exactly as
\* it is spelled in the list (a leading 'v' is kept, nothing is synthesized).
C1_ResultIsMember ==
    Selected =>
        \/ latest_version = NoneVal
        \/ \E i \in 1..Len(tags) : tags[i] = latest_version

\* C1 witness: a tag with a leading 'v' was selected out of a longer list.
C1_Witness ==
    /\ Selected /\ latest_version = Tag_v1_10_0 /\ Len(tags) > 1

\* C2: when the list holds a parsable semantic-version tag, the result is such
\* a tag and its (major, minor, patch) is >= that of every parsable
\* semantic-version tag of the list, the numbers compared as integers.
C2_ResultIsMaximal ==
    (Selected /\ \E i \in 1..Len(tags) : Parsable(tags[i])) =>
        /\ latest_version # NoneVal
        /\ Parsable(latest_version)
        /\ \A i \in 1..Len(tags) :
             Parsable(tags[i]) => TripleLeq(Triple(tags[i]), Triple(latest_version))

\* C2 witness: ["1.2.3", "1.10.0", "1.9.9"] gives "1.10.0".
C2_Witness ==
    /\ tags = <<Tag_1_2_3, Tag_1_10_0, Tag_1_9_9>>
    /\ latest_version = Tag_1_10_0

\* C3 as stated: whenever a tag matches the semantic-version pattern, no bare
\* numeric tag is returned.
C3_Original ==
    (Selected /\ \E i \in 1..Len(tags) : is_semantic_version(tags[i])) =>
        ~(latest_version # NoneVal /\ IsBareNumeric(latest_version))

\* C3 amended: the bare-numeric fallback is used only when no tag both matches
\* the semantic-version pattern and parses as a version; when one does, the
\* result is a semantic-version tag and never a bare numeric one.
C3_FallbackOnlyWithoutParsable ==
    Selected =>
        /\ (\E i \in 1..Len(tags) : Parsable(tags[i])) =>
               (latest_version # NoneVal /\ is_semantic_version(latest_version))
        /\ (latest_version # NoneVal /\ IsBareNumeric(latest_version)) =>
               \A i \in 1..Len(tags) : ~Parsable(tags[i])

\* C3 witness: a numerically larger bare tag loses to a semantic-version tag.
C3_Witness ==
    /\ tags = <<Tag_1_2_3, Tag_12>>
    /\ latest_version = Tag_1_2_3

----------------------------------------------------------------------------
(* version_number_collector.py: main                                        *)

\* Entries of IMAGES_TO_CHECK, one for each registry the list names.
Image_qdrant == <<"q", "d", "r", "a", "n", "t", "/", "q", "d", "r", "a", "n", "t">>
Image_litellm ==
    <<"g", "h", "c", "r", ".", "i", "o", "/", "b", "e", "r", "r", "i", "a", "i", "/",
      "l", "i", "t", "e", "l", "l", "m", ":", "m", "a", "i", "n", "-", "l", "a", "t",
      "e", "s", "t">>
Image_unstructured ==
    <<"q", "u", "a", "y", ".", "i", "o", "/", "u", "n", "s", "t", "r", "u", "c", "t",
      "u", "r", "e", "d", "-", "i", "o", "/", "u", "n", "s", "t", "r", "u", "c", "t",
      "u", "r", "e", "d", "-", "a", "p", "i", ":", "l", "a", "t", "e", "s", "t">>
ImagesToCheck == <<Image_qdrant, Image_litellm, Image_unstructured>>

\* image_ref.split(':', 1)[0] when the reference holds a ':', else the reference.
ImageName(image_ref) == SplitOn(image_ref, ":")[1]

\* The branch of lines 148-168 an image name takes.
Registry(image_name) ==
    IF ~Contains(image_name, "/") THEN "dockerhub_library"
    ELSE IF StartsWith(image_name, <<"g", "h", "c", "r", ".", "i", "o", "/">>) THEN "ghcr"
    ELSE IF StartsWith(image_name, <<"q", "u", "a", "y", ".", "i", "o", "/">>) THEN "quay"
    ELSE IF StartsWith(image_name, <<"m", "c", "r", ".", "m", "i", "c", "r", "o", "s", "o", "f", "t", ".", "c", "o", "m", "/">>)
    THEN "mcr"
    ELSE IF ~Contains(SplitOn(image_name, "/")[1], ".") THEN "dockerhub"
    ELSE "other"

\* Tags a registry call of the collector returns, and the longest answer.
FetchPool == {Tag_1_2_3, Tag_v1_10_0, Tag_1_2_3_alpine, Tag_5, Tag_latest}
MaxFetch == 2
FetchLists == UNION {[1..n -> FetchPool] : n \in 0..MaxFetch}

\* What a get_*_tags function returns: None, or a list of tags (maybe empty).
FetchNone == [state |-> "none", tags |-> <<>>]
FetchOutcomes == {FetchNone} \cup {[state |-> "tags", tags |-> l] : l \in FetchLists}

InitCollector ==
    /\ tags = <<>>
    /\ latest_version = Unset
    /\ image_idx = 1
    /\ fetched = [state |-> "unset", tags |-> <<>>]
    /\ results = <<>>
    /\ failed_images = <<>>
    /\ col_pc = "fetch"
    /\ IdleRewriter
    /\ IdleChecker
    /\ IdleRun
    /\ IdleFetcher /\ IdleMemoryFilter /\ IdleAutoMemory /\ IdleGemini

CurrentImage == ImagesToCheck[image_idx]

\* Lines 146-168 for an image of the given registry: the registry call.
Fetch(registry) ==
    /\ col_pc = "fetch"
    /\ image_idx <= Len(ImagesToCheck)
    /\ Registry(ImageName(CurrentImage)) = registry
    /\ fetched' \in FetchOutcomes
    /\ col_pc' = "record"
    /\ UNCHANGED <<image_idx, results, failed_images, selVars, rwVars, cmpVars, runVars, extVars>>

FetchDockerHub == Fetch("dockerhub")
FetchGhcr == Fetch("ghcr")
FetchQuay == Fetch("quay")

\* Mutant of RecordOutcome: an image whose lookup failed is recorded nowhere.
RecordOutcome_dropfailed(out, image_ref, res, failed) ==
    IF out.state = "tags" /\ find_latest_version(out.tags) \notin {NoneVal, <<>>}
    THEN <<DictPut(res, image_ref, find_latest_version(out.tags)), failed>>
    ELSE <<res, failed>>

\* Mutant of RecordOutcome: an image without a suitable version is recorded
\* as successful, under the value None.
RecordOutcome_mutant(out, image_ref, res, failed) ==
    IF out.state = "tags"
    THEN <<DictPut(res, image_ref, find_latest_version(out.tags)), failed>>
    ELSE <<res, Append(failed, image_ref)>>

\* Lines 170-179: <<results, failed_images>> after the outcome of one image.
RecordOutcome(out, image_ref, res, failed) ==
    IF out.state = "tags"
    THEN LET latest == find_latest_version(out.tags)
         IN IF latest # NoneVal /\ latest # <<>>
            THEN <<DictPut(res, image_ref, latest), failed>>
            ELSE <<res, Append(failed, image_ref)>>
    ELSE <<res, Append(failed, image_ref)>>

\* The rest of one iteration of the loop of main.
Record ==
    /\ col_pc = "record"
    /\ LET r == RecordOutcome(fetched, CurrentImage, results, failed_images)
       IN results' = r[1] /\ failed_images' = r[2]
    /\ image_idx' = image_idx + 1
    /\ col_pc' = IF image_idx = Len(ImagesToCheck) THEN "done" ELSE "fetch"
    /\ UNCHANGED <<fetched, selVars, rwVars, cmpVars, runVars, extVars>>

NextCollector == FetchDockerHub \/ FetchGhcr \/ FetchQuay \/ Record
SpecCollector == InitCollector /\ [][NextCollector]_vars

\* No tag of the list matches the semantic-version or the bare-numeric pattern.
NoVersionTag(ts) ==
    \A i \in 1..Len(ts) : ~is_semantic_version(ts[i]) /\ ~IsBareNumeric(ts[i])

\* The image whose outcome was recorded last.
JustRecorded == col_pc \in {"fetch", "done"} /\ image_idx > 1
LastImage == ImagesToCheck[image_idx - 1]
InList(l, x) == \E i \in 1..Len(l) : l[i] = x

\* C4: when the fetched list holds no semantic-version and no bare-numeric tag
\* (an empty list, or names only), find_latest_version gives None and main
\* records the image under failed_images and not under successful_images.
C4_NoVersionIsFailed ==
    (JustRecorded /\ fetched.state = "tags" /\ NoVersionTag(fetched.tags)) =>
        /\ find_latest_version(fetched.tags) = NoneVal
        /\ InList(failed_images, LastImage)
        /\ ~DictHas(results, LastImage)

\* C4 witness: the second image answered with the tag 'latest' only, after the
\* first one was resolved.
C4_Witness ==
    /\ JustRecorded /\ image_idx = 3
    /\ fetched = [state |-> "tags", tags |-> <<Tag_latest>>]
    /\ failed_images = <<Image_litellm>>
    /\ DictHas(results, Image_qdrant)

\* How often the image reference is in failed_images.
TimesFailed(image_ref) ==
    Cardinality({k \in 1..Len(failed_images) : failed_images[k] = image_ref})

\* The image reference is in exactly one of successful_images and
\* failed_images, and there once.
InExactlyOne(image_ref) ==
    \/ DictHas(results, image_ref) /\ TimesFailed(image_ref) = 0
    \/ ~DictHas(results, image_ref) /\ TimesFailed(image_ref) = 1

----------------------------------------------------------------------------
(* Text of a compose document: lines, and the patterns of the line scripts  *)

\* s.find(c) + 1 and s.rfind(c) + 1: 0 when c is not in s.
IndexOf(s, c) ==
    IF ~Contains(s, c) THEN 0
    ELSE CHOOSE j \in 1..Len(s) : s[j] = c /\ \A k \in 1..(j - 1) : s[k] # c
LastIndexOf(s, c) ==
    IF ~Contains(s, c) THEN 0
    ELSE CHOOSE j \in 1..Len(s) : s[j] = c /\ \A k \in (j + 1)..Len(s) : s[k] # c

DropEmptyLast(parts) ==
    IF parts[Len(parts)] = <<>> THEN SubSeq(parts, 1, Len(parts) - 1) ELSE parts

\* content.splitlines(): the lines without their terminators; a final newline
\* makes no extra line.
SplitLines(s) == IF s = <<>> THEN <<>> ELSE DropEmptyLast(SplitOn(s, "\n"))

\* '\n'.join(lines)
RECURSIVE Join(_)
Join(lines) ==
    IF lines = <<>> THEN <<>>
    ELSE IF Len(lines) = 1 THEN lines[1]
    ELSE lines[1] \o <<"\n">> \o Join(Tail(lines))

\* f.readlines(): the lines with their terminators.
RECURSIVE ReadLines(_)
ReadLines(s) ==
    IF s = <<>> THEN <<>>
    ELSE IF ~Contains(s, "\n") THEN <<s>>
    ELSE <<SubSeq(s, 1, IndexOf(s, "\n"))>> \o ReadLines(From(s, IndexOf(s, "\n") + 1))

\* f.writelines(lines)
RECURSIVE Concat(_)
Concat(lines) == IF lines = <<>> THEN <<>> ELSE lines[1] \o Concat(Tail(lines))

\* ' ' * n
Spaces(n) == [i \in 1..n |-> " "]

\* The end of the leading blanks of a line: ^\s*
IndentEnd(line) == SpanEnd(line, 1, Space)

\* service_pattern = ^(\s+)(\w+):  -- does it match, and its group(2).
ServiceMatchAt(line, a, b) == a > 1 /\ b > a /\ b <= Len(line) /\ line[b] = ":"
service_match(line) ==
    ServiceMatchAt(line, IndentEnd(line), SpanEnd(line, IndentEnd(line), Word))
service_group2(line) ==
    SubSeq(line, IndentEnd(line), SpanEnd(line, IndentEnd(line), Word) - 1)

ImageKey == <<"i", "m", "a", "g", "e", ":">>

\* ^(\s+)image:\s+(.+)$ on a line without newline, a being the end of its
\* leading blanks and d the end of the blanks after 'image:': the position
\* where (.+) starts, 0 when the pattern does not match. When only blanks
\* follow 'image:', backtracking leaves the last of them to (.+).
ImageValueAt(line, a, d) ==
    IF a > 1 /\ HasPrefixAt(line, a, ImageKey) /\ d > a + Len(ImageKey)
    THEN IF d <= Len(line) THEN d
         ELSE IF d > a + Len(ImageKey) + 1 THEN d - 1 ELSE 0
    ELSE 0

\* image_pattern.match(line): the start of group (.+), 0 for no match. '$' and
\* '.' leave a final newline of the line out of the match.
ImageValueStart(line) ==
    ImageValueAt(DropFinalNewline(line), IndentEnd(DropFinalNewline(line)),
                 SpanEnd(DropFinalNewline(line),
                         IndentEnd(DropFinalNewline(line)) + Len(ImageKey), Space))
image_match(line) == ImageValueStart(line) # 0
\* group (.+) of image_pattern
image_group(line) == From(DropFinalNewline(line), ImageValueStart(line))
\* group (\s+image:\s+) of the combined script's image_pattern
image_prefix(line) == SubSeq(line, 1, ImageValueStart(line) - 1)
\* group (\s+) of add_version_comments' image_pattern
image_indent(line) == SubSeq(line, 1, IndentEnd(DropFinalNewline(line)) - 1)

VersionCommentKey == <<"#", " ", "V", "e", "r", "s", "i", "o", "n", ":">>
\* version_comment_pattern = ^\s+# Version:
version_comment_match(line) ==
    IndentEnd(line) > 1 /\ HasPrefixAt(line, IndentEnd(line), VersionCommentKey)

\* image.rsplit(":", 1) when ":" is in image
Container(image) == SubSeq(image, 1, LastIndexOf(image, ":") - 1)
TagOf(image) == From(image, LastIndexOf(image, ":") + 1)

Str_latest == <<"l", "a", "t", "e", "s", "t">>
Str_unknown == <<"u", "n", "k", "n", "o", "w", "n">>
Str_UNKNOWN == <<"U", "N", "K", "N", "O", "W", "N">>
Str_alpine == <<"a", "l", "p", "i", "n", "e">>
Str_latest_full == <<"l", "a", "t", "e", "s", "t", "-", "f", "u", "l", "l">>
Str_latest_cuda == <<"l", "a", "t", "e", "s", "t", "-", "c", "u", "d", "a">>
CommentText == <<"#", " ", "V", "e", "r", "s", "i", "o", "n", ":", " ">>

----------------------------------------------------------------------------
(* version_docker_compose.py: add_version_comments_and_update_tags          *)

\* Lines 89-93: the container and the tag of an image string.
ContainerOfImage(image) == IF Contains(image, ":") THEN Container(image) ELSE image
TagOfImage(image) == IF Contains(image, ":") THEN TagOf(image) ELSE Str_latest

\* Line 96: the version data hold a version for the container.
CombinedUsable(cv, container) ==
    /\ DictHas(cv, container)
    /\ DictGet(cv, container) \notin {Str_unknown, Str_UNKNOWN, NoneVal}

\* len('image: ') of line 98
ImageWordLen == Len(ImageKey) + 1

\* Mutant of CombinedWithVersion: the tag is rewritten whatever it is.
CombinedWithVersion_anytag(line, prefix, image, container, tag, version, cur, update_tags) ==
    IF update_tags
    THEN << <<Spaces(Len(prefix) - ImageWordLen) \o CommentText \o version,
              prefix \o container \o <<":">> \o version>>,
            [service |-> cur, old_image |-> image,
             new_image |-> container \o <<":">> \o version,
             version |-> version, change_type |-> "tag_updated"] >>
    ELSE << <<Spaces(Len(prefix) - ImageWordLen) \o CommentText \o version, line>>,
            [service |-> cur, image |-> image, version |-> version,
             change_type |-> "comment_added"] >>

\* Lines 97-128, an image line whose container has a version:
\* << the lines put out for it, its change record >>.
CombinedWithVersion(line, prefix, image, container, tag, version, cur, update_tags) ==
    IF update_tags /\ (tag = Str_latest \/ container = image)
    THEN << <<Spaces(Len(prefix) - ImageWordLen) \o CommentText \o version,
              prefix \o container \o <<":">> \o version>>,
            [service |-> cur, old_image |-> image,
             new_image |-> container \o <<":">> \o version,
             version |-> version, change_type |-> "tag_updated"] >>
    ELSE << <<Spaces(Len(prefix) - ImageWordLen) \o CommentText \o version, line>>,
            [service |-> cur, image |-> image, version |-> version,
             change_type |-> "comment_added"] >>

CombinedImageLine(line, image, cur, cv, update_tags) ==
    CombinedWithVersion(line, image_prefix(line), image, ContainerOfImage(image),
                        TagOfImage(image), DictGet(cv, ContainerOfImage(image)),
                        cur, update_tags)

\* Lines 83-134 for one line that is kept: does it get a comment and a record?
CombinedTouches(line, cur, cv) ==
    /\ image_match(line)
    /\ cur # NoneVal
    /\ CombinedUsable(cv, ContainerOfImage(image_group(line)))

\* Lines 73-75: the service the loop takes itself to be in after this line.
NextService(line, cur) == IF service_match(line) THEN service_group2(line) ELSE cur

\* The loop of lines 71-136 from line i on: <<new_lines, changes>>.
RECURSIVE CombinedLoop(_, _, _, _, _, _, _, _)
CombinedLoop(lines, i, cur, new_lines, chg, cv, update_tags, skip_existing) ==
    IF i > Len(lines) THEN <<new_lines, chg>>
    ELSE IF version_comment_match(lines[i]) /\ skip_existing
    THEN CombinedLoop(lines, i + 1, NextService(lines[i], cur), new_lines, chg,
                      cv, update_tags, skip_existing)
    ELSE IF CombinedTouches(lines[i], NextService(lines[i], cur), cv)
    THEN CombinedLoop(lines, i + 1, NextService(lines[i], cur),
                      new_lines \o CombinedImageLine(lines[i], image_group(lines[i]),
                                      NextService(lines[i], cur), cv, update_tags)[1],
                      Append(chg, CombinedImageLine(lines[i], image_group(lines[i]),
                                      NextService(lines[i], cur), cv, update_tags)[2]),
                      cv, update_tags, skip_existing)
    ELSE CombinedLoop(lines, i + 1, NextService(lines[i], cur),
                      Append(new_lines, lines[i]), chg, cv, update_tags, skip_existing)

JoinResult(r) == <<Join(r[1]), r[2]>>

\* add_version_comments_and_update_tags: <<new_content, changes>>.
add_version_comments_and_update_tags(text, cv, update_tags, skip_existing) ==
    JoinResult(CombinedLoop(SplitLines(text), 1, NoneVal, <<>>, <<>>, cv,
                            update_tags, skip_existing))

----------------------------------------------------------------------------
(* add_version_comments.py: add_version_comments                            *)

\* container_versions.get(container, "unknown")
VersionOrUnknown(cv, container) ==
    IF DictHas(cv, container) THEN DictGet(cv, container) ELSE Str_unknown

\* Lines 71-85: the line is an image line that gets a comment.
CommentsTouches(line, cur, cv) ==
    /\ image_match(line)
    /\ cur # NoneVal
    /\ VersionOrUnknown(cv, ContainerOfImage(image_group(line)))
           \notin {Str_unknown, Str_latest, NoneVal}

\* Line 87: the comment line of an image line.
VersionCommentLine(line, cv) ==
    image_indent(line) \o CommentText
        \o VersionOrUnknown(cv, ContainerOfImage(image_group(line))) \o <<"\n">>

CommentsRecord(line, cur, cv) ==
    [service |-> cur, image |-> image_group(line),
     version |-> VersionOrUnknown(cv, ContainerOfImage(image_group(line)))]

\* The loop of lines 61-98 from line i on: <<new_lines, changes>>.
RECURSIVE CommentsLoop(_, _, _, _, _, _)
CommentsLoop(lines, i, cur, new_lines, chg, cv) ==
    IF i > Len(lines) THEN <<new_lines, chg>>
    ELSE IF CommentsTouches(lines[i], NextService(lines[i], cur), cv)
    THEN CommentsLoop(lines, i + 1, NextService(lines[i], cur),
                      new_lines \o <<VersionCommentLine(lines[i], cv), lines[i]>>,
                      Append(chg, CommentsRecord(lines[i], NextService(lines[i], cur), cv)),
                      cv)
    ELSE CommentsLoop(lines, i + 1, NextService(lines[i], cur),
                      Append(new_lines, lines[i]), chg, cv)

ConcatResult(r) == <<Concat(r[1]), r[2]>>

\* load_file_lines, add_version_comments and writelines: <<text written, changes>>.
add_version_comments(text, cv) ==
    ConcatResult(CommentsLoop(ReadLines(text), 1, NoneVal, <<>>, <<>>, cv))

----------------------------------------------------------------------------
(* yaml.safe_load, for the block-style documents the model reads: top-level  *)
(* keys at column 0, the services one level in, their keys one level         *)
(* further in, plain or quoted scalars, comment lines and blank lines.       *)

Str_services == <<"s", "e", "r", "v", "i", "c", "e", "s">>
Str_image == <<"i", "m", "a", "g", "e">>
Quotes == {"\"", "'"}

\* A blank line or a comment line.
YamlSkips(line) == IndentEnd(line) > Len(line) \/ line[IndentEnd(line)] = "#"
YamlIndent(line) == IndentEnd(line) - 1
\* The key of a 'key: value' line.
YamlKey(line) == SubSeq(line, IndentEnd(line), IndexOf(line, ":") - 1)

\* The position of the ' #' that starts a trailing comment, 0 when none does.
CommentStart(v) ==
    IF \E i \in 2..Len(v) : v[i] = "#" /\ v[i - 1] \in Space
    THEN CHOOSE i \in 2..Len(v) :
             /\ v[i] = "#" /\ v[i - 1] \in Space
             /\ \A k \in 2..(i - 1) : ~(v[k] = "#" /\ v[k - 1] \in Space)
    ELSE 0

\* The scalar a value text stands for: the inside of a quoted scalar, or the
\* plain scalar without a trailing comment and blanks.
ScalarValue(v) ==
    IF v # <<>> /\ v[1] \in Quotes
    THEN SubSeq(v, 2, IndexOf(Tail(v), v[1]))
    ELSE IF CommentStart(v) # 0 THEN Strip(SubSeq(v, 1, CommentStart(v) - 1))
    ELSE v

YamlValue(line) == ScalarValue(Strip(From(line, IndexOf(line, ":") + 1)))

\* data["services"] as the ordered pairs <<service name, image>> of the
\* services that have an image key. svc_indent and prop_indent are the
\* indentation of the service keys and of the current service's keys (0: not
\* seen yet), cur the service the lines belong to.
RECURSIVE YamlLoop(_, _, _, _, _, _, _)
YamlLoop(lines, i, in_services, svc_indent, prop_indent, cur, entries) ==
    IF i > Len(lines) THEN entries
    ELSE IF YamlSkips(lines[i])
    THEN YamlLoop(lines, i + 1, in_services, svc_indent, prop_indent, cur, entries)
    ELSE IF YamlIndent(lines[i]) = 0
    THEN YamlLoop(lines, i + 1, YamlKey(lines[i]) = Str_services, 0, 0, NoneVal, entries)
    ELSE IF ~in_services
    THEN YamlLoop(lines, i + 1, in_services, svc_indent, prop_indent, cur, entries)
    ELSE IF svc_indent = 0 \/ YamlIndent(lines[i]) = svc_indent
    THEN YamlLoop(lines, i + 1, TRUE, YamlIndent(lines[i]), 0, YamlKey(lines[i]), entries)
    ELSE IF /\ prop_indent \in {0, YamlIndent(lines[i])}
            /\ YamlKey(lines[i]) = Str_image
    THEN YamlLoop(lines, i + 1, TRUE, svc_indent, YamlIndent(lines[i]), cur,
                  DictPut(entries, cur, YamlValue(lines[i])))
    ELSE YamlLoop(lines, i + 1, TRUE, svc_indent,
                  IF prop_indent = 0 THEN YamlIndent(lines[i]) ELSE prop_indent,
                  cur, entries)

\* The images of the services of a document, as extract_images and the loop
\* of update_versions read them from yaml.safe_load.
YamlServices(text) == YamlLoop(SplitLines(text), 1, FALSE, 0, 0, NoneVal, <<>>)

----------------------------------------------------------------------------
(* update_compose_versions.py: update_versions                              *)

\* Lines 66 and 96: the version data hold a version for the container.
UpdateUsable(cv, container) ==
    /\ DictHas(cv, container)
    /\ DictGet(cv, container) \notin {Str_latest, Str_UNKNOWN, NoneVal}

HasDigit(s) == \E i \in 1..Len(s) : s[i] \in Digits

\* Mutant of UpdateReplaces: the check for a tag that is specific already
\* (line 74) is left out.
UpdateReplaces_nodigitcheck(image, cv) ==
    IF Contains(image, ":")
    THEN /\ UpdateUsable(cv, Container(image))
         /\ ~(TagOf(image) \in {Str_alpine, Str_latest_full, Str_latest_cuda}
                /\ ~StartsWith(TagOf(image), <<"v">>))
    ELSE UpdateUsable(cv, image)

\* Lines 62-75 and 92-96: the image of a service is to be replaced.
UpdateReplaces(image, cv) ==
    IF Contains(image, ":")
    THEN /\ UpdateUsable(cv, Container(image))
         /\ ~(TagOf(image) \in {Str_alpine, Str_latest_full, Str_latest_cuda}
                /\ ~StartsWith(TagOf(image), <<"v">>))
         /\ ~(HasDigit(TagOf(image)) /\ TagOf(image) # Str_latest)
    ELSE UpdateUsable(cv, image)

\* Lines 78 and 98: new_image
UpdateNewImage(image, cv) ==
    ContainerOfImage(image) \o <<":">> \o DictGet(cv, ContainerOfImage(image))

\* (\s+image:\s+)IMAGE(\s|$) with 'image:' at position j of the text: the
\* position where IMAGE starts, 0 when the pattern does not match there.
SubImageAt(text, j, l, image) ==
    IF /\ HasPrefixAt(text, j, ImageKey)
       /\ l > j + Len(ImageKey)
       /\ HasPrefixAt(text, l, image)
       /\ (l + Len(image) > Len(text) \/ text[l + Len(image)] \in Space)
    THEN l ELSE 0

\* The same pattern tried at position p, which has to hold a blank.
SubMatchAt(text, p, image) ==
    IF text[p] \in Space
    THEN SubImageAt(text, SpanEnd(text, p, Space),
                    SpanEnd(text, SpanEnd(text, p, Space) + Len(ImageKey), Space), image)
    ELSE 0

\* The leftmost position at or after p where the pattern matches, 0 if none.
NextMatch(text, p, image) ==
    IF \E i \in p..Len(text) : SubMatchAt(text, i, image) # 0
    THEN CHOOSE i \in p..Len(text) :
             /\ SubMatchAt(text, i, image) # 0
             /\ \A k \in p..(i - 1) : SubMatchAt(text, k, image) = 0
    ELSE 0

\* Group 2 of a match whose IMAGE ends before position e: the blank there, or
\* nothing at the end of the text.
SubGroup2(text, e) == IF e <= Len(text) THEN <<text[e]>> ELSE <<>>

\* re.sub(pattern, r"\1" + new_image + r"\2", text) from position p on, the
\* next match being the one at position m (0: none is left): each match, found
\* from left to right, keeps its groups 1 and 2 and has IMAGE replaced by
\* new_image; the search goes on behind the match.
RECURSIVE SubFrom(_, _, _, _, _)
SubFrom(text, p, m, image, new_image) ==
    IF m = 0 THEN From(text, p)
    ELSE SubSeq(text, p, SubMatchAt(text, m, image) - 1) \o new_image
           \o SubGroup2(text, SubMatchAt(text, m, image) + Len(image))
           \o SubFrom(text, SubMatchAt(text, m, image) + Len(image) + 1,
                      NextMatch(text, SubMatchAt(text, m, image) + Len(image) + 1, image),
                      image, new_image)

RegexSub(text, image, new_image) ==
    SubFrom(text, 1, NextMatch(text, 1, image), image, new_image)

\* The replacement template "\1" + new_image + "\2" is read as a reference to
\* group 1N when new_image starts with the digit N: re.error, which nothing
\* catches. (Two leading octal digits would make an octal escape instead; no
\* image name of the model starts so.)
TemplateError(new_image) == new_image[1] \in Digits

\* What the run leaves when the script dies of an uncaught exception.
Crashed == <<"<error>">>

\* The loop of lines 57-111 from service i on: <<yaml_content, changes>>.
RECURSIVE UpdateLoop(_, _, _, _, _)
UpdateLoop(entries, i, text, chg, cv) ==
    IF i > Len(entries) THEN <<text, chg>>
    ELSE IF ~UpdateReplaces(entries[i][2], cv)
    THEN UpdateLoop(entries, i + 1, text, chg, cv)
    ELSE IF TemplateError(UpdateNewImage(entries[i][2], cv)) THEN <<Crashed, chg>>
    ELSE UpdateLoop(entries, i + 1,
                    RegexSub(text, entries[i][2], UpdateNewImage(entries[i][2], cv)),
                    Append(chg, [service |-> entries[i][1], old_image |-> entries[i][2],
                                 new_image |-> UpdateNewImage(entries[i][2], cv)]),
                    cv)

\* load_yaml_file and update_versions: <<updated_content, changes>>.
update_versions(text, cv) == UpdateLoop(YamlServices(text), 1, text, <<>>, cv)

----------------------------------------------------------------------------
(* The documents and version data the rewriting scripts are run on           *)

Str_qdrant == <<"q", "d", "r", "a", "n", "t", "/", "q", "d", "r", "a", "n", "t">>
Str_redis == <<"r", "e", "d", "i", "s">>
Str_1pw == <<"1", "p", "w", "/", "x">>
Str_v1_9_0 == <<"v", "1", ".", "9", ".", "0">>
Str_7_4_0 == <<"7", ".", "4", ".", "0">>
Str_1_0 == <<"1", ".", "0">>

Line_latest ==
    <<" ", " ", " ", " ", "i", "m", "a", "g", "e", ":", " ", "q", "d", "r", "a", "n",
      "t", "/", "q", "d", "r", "a", "n", "t", ":", "l", "a", "t", "e", "s", "t">>
Line_notag ==
    <<" ", " ", " ", " ", "i", "m", "a", "g", "e", ":", " ", "q", "d", "r", "a", "n",
      "t", "/", "q", "d", "r", "a", "n", "t">>
Line_pinned ==
    <<" ", " ", " ", " ", "i", "m", "a", "g", "e", ":", " ", "r", "e", "d", "i", "s",
      ":", "7", ".", "2", ".", "4">>
Line_main ==
    <<" ", " ", " ", " ", "i", "m", "a", "g", "e", ":", " ", "r", "e", "d", "i", "s",
      ":", "m", "a", "i", "n">>
Line_alpine ==
    <<" ", " ", " ", " ", "i", "m", "a", "g", "e", ":", " ", "r", "e", "d", "i", "s",
      ":", "a", "l", "p", "i", "n", "e">>
Line_twospace ==
    <<" ", " ", " ", " ", "i", "m", "a", "g", "e", ":", " ", " ", "q", "d", "r", "a",
      "n", "t", "/", "q", "d", "r", "a", "n", "t", ":", "l", "a", "t", "e", "s", "t">>
Line_quoted ==
    <<" ", " ", " ", " ", "i", "m", "a", "g", "e", ":", " ", "\"", "q", "d", "r", "a",
      "n", "t", "/", "q", "d", "r", "a", "n", "t", ":", "l", "a", "t", "e", "s", "t",
      "\"">>
Line_digitrepo ==
    <<" ", " ", " ", " ", "i", "m", "a", "g", "e", ":", " ", "1", "p", "w", "/", "x",
      ":", "l", "a", "t", "e", "s", "t">>
Line_latest_full ==
    <<" ", " ", " ", " ", "i", "m", "a", "g", "e", ":", " ", "r", "e", "d", "i", "s",
      ":", "l", "a", "t", "e", "s", "t", "-", "f", "u", "l", "l">>
Line_cname ==
    <<" ", " ", " ", " ", "c", "o", "n", "t", "a", "i", "n", "e", "r", "_", "n", "a",
      "m", "e", ":", " ", "c">>
Line_redis_latest ==
    <<" ", " ", " ", " ", "i", "m", "a", "g", "e", ":", " ", "r", "e", "d", "i", "s",
      ":", "l", "a", "t", "e", "s", "t">>
Line_commented_image ==
    <<" ", " ", " ", " ", "#", " ", "i", "m", "a", "g", "e", ":", " ", "q", "d", "r",
      "a", "n", "t", "/", "q", "d", "r", "a", "n", "t", ":", "l", "a", "t", "e", "s",
      "t">>
Line_comment ==
    <<" ", " ", " ", " ", "#", " ", "V", "e", "r", "s", "i", "o", "n", ":", " ", "v",
      "1", ".", "8", ".", "0">>

\* The lines below a service key, one block for each shape of image line.
BlockPool == {<<Line_latest>>, <<Line_notag>>, <<Line_pinned>>, <<Line_main>>,
              <<Line_alpine>>, <<Line_twospace>>, <<Line_quoted>>, <<Line_digitrepo>>,
              <<Line_latest_full>>, <<Line_cname, Line_latest>>,
              <<Line_comment, Line_latest>>, <<Line_redis_latest>>,
              <<Line_commented_image, Line_latest>>}

\* The service keys of a document, in the order they are used.
ServiceNames == << <<"c", "a", "c", "h", "e">>, <<"d", "b">>, <<"w", "e", "b">> >>
\* Most services in a document, and most passes of a script over it.
MaxServices == 2
MaxPasses == 2

\* What follows the text of the last line: nothing, its newline, or its newline
\* and a blank line.
Endings == {<<>>, <<"\n">>, <<"\n", "\n">>}

ServiceText(name, block) ==
    <<" ", " ">> \o name \o <<":">> \o Concat([i \in 1..Len(block) |-> <<"\n">> \o block[i]])

\* The document with the given blocks: services:, then one service for each.
DocumentText(blocks, ending) ==
    Str_services \o <<":">>
      \o Concat([i \in 1..Len(blocks) |-> <<"\n">> \o ServiceText(ServiceNames[i], blocks[i])])
      \o ending

Documents ==
    {DocumentText(blocks, ending) :
        blocks \in UNION {[1..n -> BlockPool] : n \in 1..MaxServices}, ending \in Endings}

\* container_versions of the version file: what it holds for each container.
VersionData ==
    {(IF q = <<>> THEN <<>> ELSE << <<Str_qdrant, q>> >>)
       \o (IF r = <<>> THEN <<>> ELSE << <<Str_redis, r>> >>)
       \o << <<Str_1pw, Str_1_0>> >> :
        q \in {<<>>, Str_v1_9_0, Str_latest, Str_unknown}, r \in {<<>>, Str_7_4_0}}

InitRewrite ==
    /\ tags = <<>>
    /\ latest_version = Unset
    /\ IdleCollector
    /\ content \in Documents
    /\ container_versions \in VersionData
    /\ new_content = Unset
    /\ changes = <<>>
    /\ script = [name |-> "none", update_tags |-> FALSE, skip_existing |-> FALSE]
    /\ passes = 0
    /\ IdleChecker
    /\ IdleRun
    /\ IdleFetcher /\ IdleMemoryFilter /\ IdleAutoMemory /\ IdleGemini

\* A script runs on the document, or again on what it wrote the pass before.
CanRun(s) ==
    /\ passes < MaxPasses
    /\ new_content # Crashed
    /\ passes = 0 \/ script = s
InputText == IF passes = 0 THEN content ELSE new_content

Ran(s, input, result) ==
    /\ script' = s
    /\ content' = input
    /\ new_content' = result[1]
    /\ changes' = result[2]
    /\ passes' = passes + 1
    /\ UNCHANGED <<container_versions, selVars, colVars, cmpVars, runVars, extVars>>

ScriptUpdate == [name |-> "update", update_tags |-> TRUE, skip_existing |-> FALSE]
ScriptComments == [name |-> "comments", update_tags |-> FALSE, skip_existing |-> FALSE]
ScriptCombined(update_tags, skip_existing) ==
    [name |-> "combined", update_tags |-> update_tags, skip_existing |-> skip_existing]

\* update_compose_versions.py, main: lines 126-134.
RunUpdateVersions ==
    /\ CanRun(ScriptUpdate)
    /\ Ran(ScriptUpdate, InputText, update_versions(InputText, container_versions))

\* version_docker_compose.py, main: lines 168-181.
RunCombined ==
    \E update_tags \in BOOLEAN, skip_existing \in BOOLEAN :
        /\ CanRun(ScriptCombined(update_tags, skip_existing))
        /\ Ran(ScriptCombined(update_tags, skip_existing), InputText,
               add_version_comments_and_update_tags(InputText, container_versions,
                                                    update_tags, skip_existing))

\* add_version_comments.py, main: lines 113-121.
RunAddComments ==
    /\ CanRun(ScriptComments)
    /\ Ran(ScriptComments, InputText, add_version_comments(InputText, container_versions))

NextRewrite == RunUpdateVersions \/ RunCombined \/ RunAddComments
SpecRewrite == InitRewrite /\ [][NextRewrite]_vars

----------------------------------------------------------------------------
(* The properties of the rewriting scripts                                  *)

\* The image declaration of a service in the lines of a document: the first
\* 'image' key below the line of the service key and above the next key of
\* that level; 0 when the service or the declaration is not there.
HeaderLine(name) == <<" ", " ">> \o name \o <<":">>
IsImageDecl(line) == ~YamlSkips(line) /\ YamlKey(line) = Str_image
EndsBlock(line) == ~YamlSkips(line) /\ YamlIndent(line) <= Len(<<" ", " ">>)
ImageIdxBelow(lines, h) ==
    IF \E k \in (h + 1)..Len(lines) :
           IsImageDecl(lines[k]) /\ \A j \in (h + 1)..(k - 1) : ~EndsBlock(lines[j])
    THEN CHOOSE k \in (h + 1)..Len(lines) :
           /\ IsImageDecl(lines[k]) /\ \A j \in (h + 1)..(k - 1) : ~EndsBlock(lines[j])
           /\ \A j \in (h + 1)..(k - 1) : ~IsImageDecl(lines[j])
    ELSE 0
ImageIdx(lines, name) ==
    IF \E h \in 1..Len(lines) : lines[h] = HeaderLine(name)
    THEN ImageIdxBelow(lines, CHOOSE h \in 1..Len(lines) : lines[h] = HeaderLine(name))
    ELSE 0

\* The image line of a service in the lines, and its image string among the
\* parsed services; empty when it has none.
ImageLine(lines, name) ==
    IF ImageIdx(lines, name) = 0 THEN <<>> ELSE lines[ImageIdx(lines, name)]
ImageOf(entries, name) == IF DictHas(entries, name) THEN DictGet(entries, name) ELSE <<>>

InLines == SplitLines(content)
OutLines == SplitLines(new_content)
InServices == YamlServices(content)
OutServices == YamlServices(new_content)

\* A pass has run and has written its output.
Wrote == passes >= 1 /\ new_content # Crashed
ReplaceRan ==
    /\ Wrote
    /\ script.name = "update" \/ (script.name = "combined" /\ script.update_tags)
AnnotateRan ==
    /\ Wrote
    /\ script.name = "comments" \/ (script.name = "combined" /\ ~script.update_tags)

\* The image line of the service is in the output as it is in the input.
SameImageLine(name) ==
    /\ ImageIdx(InLines, name) # 0
    /\ ImageLine(OutLines, name) = ImageLine(InLines, name)

\* The service keeps its image string.
SameImage(name) ==
    DictHas(InServices, name) /\ ImageOf(OutServices, name) = ImageOf(InServices, name)

\* The tag holds a digit and is not 'latest'.
PinnedTag(image) ==
    Contains(image, ":") /\ HasDigit(TagOf(image)) /\ TagOf(image) # Str_latest

\* C5: in replace mode the image line of a service whose tag holds a digit and
\* is not 'latest' is the same in the output as in the input, whatever version
\* is resolved for it and whatever else is rewritten.
C5_PinnedTagKept ==
    ReplaceRan =>
        \A i \in 1..Len(InServices) :
            PinnedTag(InServices[i][2]) => SameImageLine(InServices[i][1])

\* C5 witness: update_versions rewrote qdrant/qdrant:latest of one service and
\* left redis:7.2.4 of the other, for which the version 7.4.0 is resolved.
C5_Witness ==
    /\ ReplaceRan /\ script.name = "update" /\ passes = 1
    /\ DictHas(container_versions, Str_redis)
    /\ ImageLine(InLines, ServiceNames[2]) = Line_pinned
    /\ ImageLine(OutLines, ServiceNames[2]) = Line_pinned
    /\ ImageOf(InServices, ServiceNames[1]) = Str_qdrant \o <<":">> \o Str_latest
    /\ ImageOf(OutServices, ServiceNames[1]) = Str_qdrant \o <<":">> \o Str_v1_9_0

\* The tag-update records of the last pass (every record of update_versions
\* is one), and whether one of them is about the image string.
IsTagUpdate(rec) == script.name = "update" \/ rec.change_type = "tag_updated"
TagUpdateOf(image) ==
    \E k \in 1..Len(changes) : IsTagUpdate(changes[k]) /\ changes[k].old_image = image

\* The tag of the image is absent or 'latest'.
LatestOrNoTag(image) == ~Contains(image, ":") \/ TagOf(image) = Str_latest

UpdateKeepsTag(image) ==
    \/ PinnedTag(image)
    \/ Contains(image, ":")
         /\ TagOf(image) \in {Str_alpine, Str_latest_full, Str_latest_cuda}

UsableVersion(cv, repository) ==
    /\ DictHas(cv, repository)
    /\ DictGet(cv, repository) \notin {Str_latest, Str_unknown, Str_UNKNOWN, NoneVal}

HasTagUpdate(name, old, new) ==
    \E k \in 1..Len(changes) :
        /\ IsTagUpdate(changes[k])
        /\ changes[k].service = name
        /\ changes[k].old_image = old
        /\ changes[k].new_image = new

\* C7: in replace mode a service S whose image is R:latest, with a usable
\* version V resolved for R, has the image R:V in the output, and the changes
\* hold a tag-update record with service S, old image R:latest and new image
\* R:V.
C7_LatestRewrittenAndRecorded ==
    ReplaceRan =>
        \A i \in 1..Len(InServices) :
            (/\ Contains(InServices[i][2], ":")
             /\ TagOf(InServices[i][2]) = Str_latest
             /\ UsableVersion(container_versions, Container(InServices[i][2]))) =>
                /\ ImageOf(OutServices, InServices[i][1])
                     = UpdateNewImage(InServices[i][2], container_versions)
                /\ HasTagUpdate(InServices[i][1], InServices[i][2],
                                UpdateNewImage(InServices[i][2], container_versions))

\* The comment line the image line is to get: its leading blanks, '# Version: '
\* and the version.
LeadingBlanks(line) == SubSeq(line, 1, SpanEnd(line, 1, {" ", "\t"}) - 1)
ExpectedComment(line, version) == LeadingBlanks(line) \o CommentText \o version

\* The line above line k is a version comment.
CommentedAt(lines, k) == k > 1 /\ version_comment_match(lines[k - 1])
LineAbove(lines, k) == IF k > 1 THEN lines[k - 1] ELSE <<>>

\* C8: in annotate mode every image line of a service for whose repository a
\* usable version V is resolved (and that has no version comment yet) is in
\* the output unchanged, and the line directly above it there is its leading
\* blanks followed by '# Version: V'.
C8_CommentDirectlyAbove ==
    AnnotateRan =>
        \A i \in 1..Len(InServices) :
            (/\ UsableVersion(container_versions, ContainerOfImage(InServices[i][2]))
             /\ ImageIdx(InLines, InServices[i][1]) # 0
             /\ ~CommentedAt(InLines, ImageIdx(InLines, InServices[i][1]))) =>
                /\ SameImageLine(InServices[i][1])
                /\ LineAbove(OutLines, ImageIdx(OutLines, InServices[i][1]))
                     = ExpectedComment(ImageLine(InLines, InServices[i][1]),
                                       DictGet(container_versions,
                                               ContainerOfImage(InServices[i][2])))

\* No image line of the lines has two version comments directly above it.
OneCommentEach(lines) ==
    \A k \in 3..Len(lines) :
        image_match(lines[k]) =>
            ~(version_comment_match(lines[k - 1]) /\ version_comment_match(lines[k - 2]))

\* C9: the combined script with skip_existing, run on its own output with the
\* same version data, gives a document equal to that output, with at most one
\* version comment directly above each image line.
C9_CombinedIdempotent ==
    (/\ Wrote /\ passes = 2
     /\ script.name = "combined" /\ script.skip_existing) =>
        new_content = content /\ OneCommentEach(OutLines)

\* C10: add_version_comments, run on its own output with the same version
\* data, adds no further comment line.
C10_CommentsIdempotent ==
    (Wrote /\ passes = 2 /\ script.name = "comments") => new_content = content

\* The image string a change record is about, whatever script wrote it.
RecordImage(rec) ==
    IF script.name = "update" THEN rec.old_image
    ELSE IF script.name = "comments" THEN rec.image
    ELSE IF rec.change_type = "tag_updated" THEN rec.old_image
    ELSE rec.image
RecordAbout(image) == \E k \in 1..Len(changes) : RecordImage(changes[k]) = image

\* The version comment above the image line of the service, if it has one.
CommentAbove(lines, name) ==
    IF CommentedAt(lines, ImageIdx(lines, name))
    THEN LineAbove(lines, ImageIdx(lines, name)) ELSE <<>>

\* Nothing that belongs to the service has changed: its image line, the
\* version comment above it (none added, none lost), and no record is about it.
Untouched(name, image) ==
    /\ SameImageLine(name)
    /\ CommentAbove(OutLines, name) = CommentAbove(InLines, name)
    /\ ~RecordAbout(image)

\* C11: a service whose repository is not a key of the version data is left
\* untouched by every rewriting script: image line unchanged, no comment
\* inserted, a version comment above its image line kept, no change record.
C11_UnknownRepositoryUntouched ==
    Wrote =>
        \A i \in 1..Len(InServices) :
            (/\ ~DictHas(container_versions, ContainerOfImage(InServices[i][2]))
             /\ ImageIdx(InLines, InServices[i][1]) # 0) =>
                Untouched(InServices[i][1], InServices[i][2])

\* The version data hold no version for the repository, or one of the values
\* that stand for none.
UnusableVersion(cv, repository) ==
    \/ ~DictHas(cv, repository)
    \/ DictGet(cv, repository) \in {Str_unknown, Str_latest, NoneVal}

\* No version comment was written above the image line of the service: there
\* is none in the output, or it is the one of the input.
NoCommentEmitted(name) ==
    CommentAbove(OutLines, name) \in {<<>>, CommentAbove(InLines, name)}

\* C12: in annotate mode, with either implementation, a service whose resolved
\* version is 'unknown', 'latest' or absent gets no '# Version:' line and no
\* change record.
C12_NoCommentForUnusable ==
    AnnotateRan =>
        \A i \in 1..Len(InServices) :
            (/\ UnusableVersion(container_versions, ContainerOfImage(InServices[i][2]))
             /\ ImageIdx(InLines, InServices[i][1]) # 0) =>
                NoCommentEmitted(InServices[i][1]) /\ ~RecordAbout(InServices[i][2])

\* The line ends with a line terminator.
Terminated(line) == line # <<>> /\ line[Len(line)] = "\n"

\* The lines out[j..] are the lines in[i..] (both with their terminators) in
\* the same order, each once and unchanged, except that an image line may be
\* another image line with the same terminator and that version comment lines
\* may stand between them.
RECURSIVE SameButRewritten(_, _, _, _)
SameButRewritten(in, i, out, j) ==
    IF i > Len(in) THEN j > Len(out)
    ELSE IF j > Len(out) THEN FALSE
    ELSE IF out[j] = in[i] THEN SameButRewritten(in, i + 1, out, j + 1)
    ELSE IF version_comment_match(out[j]) THEN SameButRewritten(in, i, out, j + 1)
    ELSE IF image_match(in[i]) /\ image_match(out[j])
              /\ Terminated(in[i]) = Terminated(out[j])
    THEN SameButRewritten(in, i + 1, out, j + 1)
    ELSE FALSE

\* C13: the rewritten document is the input except for inserted version
\* comment lines and rewritten image lines: every other line is in the output
\* byte for byte, in the same order, once, with its line terminator, the one
\* of the last line included.
C13_OnlyDeliberateChanges ==
    Wrote => SameButRewritten(ReadLines(content), 1, ReadLines(new_content), 1)

\* diff_images.py, extract_images: the image of every service of the document,
\* read with yaml.safe_load.
extract_images(text) == YamlServices(text)

\* C14: after a rewrite in replace mode the document, parsed again, has for
\* every tag-update record (service S, new image N) the image N for service S;
\* there is no record of a replacement that is not in the text.
C14_RecordsMatchDocument ==
    ReplaceRan =>
        \A k \in 1..Len(changes) :
            IsTagUpdate(changes[k]) =>
                /\ DictHas(extract_images(new_content), changes[k].service)
                /\ DictGet(extract_images(new_content), changes[k].service)
                     = changes[k].new_image

\* Line k of the input is the image declaration of a service whose image
\* string update_versions has replaced.
ReplacedDeclaration(k) ==
    \E i \in 1..Len(InServices) :
        /\ ImageIdx(InLines, InServices[i][1]) = k
        /\ RecordAbout(InServices[i][2])

\* C15: when update_versions replaces image strings, the only lines of the
\* document that change are the image declarations of services whose image
\* string is exactly a replaced one; declarations that only contain it as a
\* prefix or substring, and text that is no image declaration (a commented-out
\* image line), stay as they are.
C15_OnlyExactDeclarationsChange ==
    (Wrote /\ script.name = "update") =>
        /\ Len(OutLines) = Len(InLines)
        /\ \A k \in 1..Len(InLines) :
              OutLines[k] # InLines[k] => ReplacedDeclaration(k)

----------------------------------------------------------------------------
(* check_docker_versions.py                                                  *)

Str_ollama == <<"o", "l", "l", "a", "m", "a", "/", "o", "l", "l", "a", "m", "a">>
Str_error == <<"e", "r", "r", "o", "r">>

\* CONTAINERS_TO_CHECK (two of its five entries)
ContainersToCheck == <<Str_qdrant, Str_ollama>>

\* Lines 33: the tag name looks like a version.
LooksLikeVersion(name) ==
    \/ StartsWith(name, <<"v">>) /\ Contains(name, ".")
    \/ name[1] \in Digits /\ Contains(name, ".")

\* Lines 31-39, from tag i on: the first name that looks like a version, else
\* the first name, else 'unknown'. An empty name makes name[0] raise, which
\* line 41 turns into 'error'.
RECURSIVE FirstVersionName(_, _)
FirstVersionName(names, i) ==
    IF i > Len(names) THEN (IF names = <<>> THEN Str_unknown ELSE names[1])
    ELSE IF names[i] = <<>> THEN Str_error
    ELSE IF LooksLikeVersion(names[i]) THEN names[i]
    ELSE FirstVersionName(names, i + 1)

\* get_latest_version for an outcome of the request: 'error' when it raised.
get_latest_version(outcome) ==
    IF outcome.state = "error" THEN Str_error ELSE FirstVersionName(outcome.tags, 1)

\* parse_version_str: the Version of the string without a leading 'v', or
\* None (InvalidVersion stands for it) when version.parse raises.
parse_version_str(version_str) ==
    IF version_str = NoneVal THEN InvalidVersion
    ELSE IF StartsWith(version_str, <<"v">>) THEN version_parse(Tail(version_str))
    ELSE version_parse(version_str)

\* Lines 66-76: container -> tag for the services of the parsed document.
RECURSIVE ExtractLoop(_, _, _)
ExtractLoop(entries, i, cv) ==
    IF i > Len(entries) THEN cv
    ELSE IF Contains(entries[i][2], ":")
    THEN ExtractLoop(entries, i + 1,
                     DictPut(cv, Container(entries[i][2]), TagOf(entries[i][2])))
    ELSE ExtractLoop(entries, i + 1, DictPut(cv, entries[i][2], Str_latest))

\* extract_container_versions: {} when the file cannot be read or parsed.
extract_container_versions(file, text) ==
    IF file # "ok" THEN <<>> ELSE ExtractLoop(YamlServices(text), 1, <<>>)

\* Mutant of CompareStatus: <= in place of <.
CompareStatus_leq(v_compose, v_latest) ==
    IF v_compose.ok /\ v_latest.ok
         /\ (VersionLess(v_compose, v_latest) \/ v_compose = v_latest)
    THEN "UPDATE AVAILABLE" ELSE "UP TO DATE"

\* Line 107: a Version object is always true, None is false.
CompareStatus(v_compose, v_latest) ==
    IF v_compose.ok /\ v_latest.ok /\ VersionLess(v_compose, v_latest)
    THEN "UPDATE AVAILABLE" ELSE "UP TO DATE"

\* Lines 90-128: the result for one container.
CompareOne(container, latest, compose) ==
    IF ~DictHas(compose, container)
    THEN [container |-> container, compose_version |-> "NOT FOUND",
          latest_version |-> latest, status |-> "NOT IN COMPOSE FILE"]
    ELSE IF DictGet(compose, container) = Str_latest
    THEN [container |-> container, compose_version |-> Str_latest,
          latest_version |-> latest, status |-> "UNKNOWN (using latest tag)"]
    ELSE [container |-> container, compose_version |-> DictGet(compose, container),
          latest_version |-> latest,
          status |-> CompareStatus(parse_version_str(DictGet(compose, container)),
                                   parse_version_str(latest))]

\* compare_versions: one result for each entry of latest_versions, in order.
compare_versions(compose, latest) ==
    [k \in 1..Len(latest) |-> CompareOne(latest[k][1], latest[k][2], compose)]

Line_qdrant_v1_9_0 ==
    <<" ", " ", " ", " ", "i", "m", "a", "g", "e", ":", " ", "q", "d", "r", "a", "n",
      "t", "/", "q", "d", "r", "a", "n", "t", ":", "v", "1", ".", "9", ".", "0">>
Line_qdrant_1_10_0 ==
    <<" ", " ", " ", " ", "i", "m", "a", "g", "e", ":", " ", "q", "d", "r", "a", "n",
      "t", "/", "q", "d", "r", "a", "n", "t", ":", "1", ".", "1", "0", ".", "0">>
Line_ollama_main ==
    <<" ", " ", " ", " ", "i", "m", "a", "g", "e", ":", " ", "o", "l", "l", "a", "m",
      "a", "/", "o", "l", "l", "a", "m", "a", ":", "m", "a", "i", "n">>
Line_ollama_1_9_9 ==
    <<" ", " ", " ", " ", "i", "m", "a", "g", "e", ":", " ", "o", "l", "l", "a", "m",
      "a", "/", "o", "l", "l", "a", "m", "a", ":", "1", ".", "9", ".", "9">>

\* The compose documents the checker is run on, and the tag names a registry
\* answers with.
CheckerBlockPool == {<<Line_latest>>, <<Line_notag>>, <<Line_qdrant_v1_9_0>>,
                     <<Line_qdrant_1_10_0>>, <<Line_ollama_main>>,
                     <<Line_ollama_1_9_9>>, <<Line_pinned>>}
CheckerDocuments ==
    {DocumentText(blocks, <<"\n">>) :
        blocks \in UNION {[1..n -> CheckerBlockPool] : n \in 1..MaxServices}}
HubTagPool == {Tag_1_10_0, Tag_v1_10_0, Tag_1_9_9, Tag_latest, Tag_main}
HubOutcomes ==
    {[state |-> "error", tags |-> <<>>]}
      \cup {[state |-> "ok", tags |-> ts] :
               ts \in UNION {[1..n -> HubTagPool] : n \in 0..MaxFetch}}
FileStates == {"ok", "missing", "invalid"}

\* main of check_docker_versions.py about to start, with the compose file in
\* one of its states (its text is of no account when it cannot be read).
InitCompare ==
    /\ tags = <<>> /\ latest_version = Unset
    /\ IdleCollector
    /\ compose_file \in FileStates
    /\ content \in (IF compose_file = "ok" THEN CheckerDocuments ELSE {<<>>})
    /\ container_versions = <<>> /\ new_content = Unset /\ changes = <<>>
    /\ passes = 0
    /\ script = [name |-> "none", update_tags |-> FALSE, skip_existing |-> FALSE]
    /\ cmp_idx = 1 /\ latest_versions = <<>> /\ compose_versions = <<>>
    /\ comparison_results = <<>> /\ cmp_pc = "fetch"
    /\ json_file = "ok" /\ backup_made = FALSE /\ output_written = FALSE
    /\ exit_status = -1 /\ run_pc = "idle"
    /\ IdleFetcher /\ IdleMemoryFilter /\ IdleAutoMemory /\ IdleGemini

\* Lines 137-139: one container looked up.
CheckerFetch ==
    /\ cmp_pc = "fetch"
    /\ \E outcome \in HubOutcomes :
         /\ fetched' = outcome
         /\ latest_versions' = DictPut(latest_versions, ContainersToCheck[cmp_idx],
                                       get_latest_version(outcome))
    /\ cmp_idx' = cmp_idx + 1
    /\ cmp_pc' = IF cmp_idx = Len(ContainersToCheck) THEN "extract" ELSE "fetch"
    /\ UNCHANGED <<compose_versions, comparison_results, image_idx, results,
                   failed_images, col_pc, selVars, rwVars, runVars, extVars>>

\* Line 144
CheckerExtract ==
    /\ cmp_pc = "extract"
    /\ compose_versions' = extract_container_versions(compose_file, content)
    /\ cmp_pc' = "compare"
    /\ UNCHANGED <<cmp_idx, latest_versions, comparison_results, selVars, colVars,
                   rwVars, runVars, extVars>>

\* Line 148
CheckerCompare ==
    /\ cmp_pc = "compare"
    /\ comparison_results' = compare_versions(compose_versions, latest_versions)
    /\ cmp_pc' = "write"
    /\ UNCHANGED <<cmp_idx, latest_versions, compose_versions, selVars, colVars,
                   rwVars, runVars, extVars>>

\* Lines 160-170: the report is written and main returns.
CheckerWrite ==
    /\ cmp_pc = "write"
    /\ output_written' = TRUE
    /\ exit_status' = 0
    /\ cmp_pc' = "done"
    /\ UNCHANGED <<cmp_idx, latest_versions, compose_versions, comparison_results,
                   compose_file, json_file, backup_made, run_pc, selVars, colVars, rwVars, extVars>>

NextCompare == CheckerFetch \/ CheckerExtract \/ CheckerCompare \/ CheckerWrite
SpecCompare == InitCompare /\ [][NextCompare]_vars

----------------------------------------------------------------------------
(* The properties of compare_versions                                       *)

\* A version string of the plain form N.N.N, with or without a leading 'v',
\* and its three numbers read straight from the digits.
Unprefixed(s) == IF StartsWith(s, <<"v">>) THEN Tail(s) ELSE s
IsPlainVersion(s) ==
    /\ \A i \in 1..Len(Unprefixed(s)) : Unprefixed(s)[i] \in Digits \cup {"."}
    /\ Len(SplitOn(Unprefixed(s), ".")) = 3
    /\ \A i \in 1..3 : SplitOn(Unprefixed(s), ".")[i] # <<>>
Numbers(s) == [i \in 1..3 |-> ToInt(SplitOn(Unprefixed(s), ".")[i])]
NumbersLess(a, b) ==
    \/ a[1] < b[1]
    \/ a[1] = b[1] /\ a[2] < b[2]
    \/ a[1] = b[1] /\ a[2] = b[2] /\ a[3] < b[3]

Compared == cmp_pc \in {"write", "done"}

\* What the claim asks of a repository for UPDATE AVAILABLE.
UpdateIsAvailable(container, latest) ==
    /\ DictHas(compose_versions, container)
    /\ DictGet(compose_versions, container) # Str_latest
    /\ IsPlainVersion(DictGet(compose_versions, container))
    /\ IsPlainVersion(latest)
    /\ NumbersLess(Numbers(DictGet(compose_versions, container)), Numbers(latest))

\* C16: compare_versions reports UPDATE AVAILABLE for a repository exactly
\* when it is in the compose map, its compose version is not 'latest', both
\* versions parse and the compose version is strictly less than the latest
\* one; equal versions are never UPDATE AVAILABLE.
C16_UpdateAvailableIff ==
    Compared =>
        \A k \in 1..Len(comparison_results) :
            (comparison_results[k].status = "UPDATE AVAILABLE")
              <=> UpdateIsAvailable(comparison_results[k].container,
                                    comparison_results[k].latest_version)

\* C16 witness: qdrant/qdrant at v1.9.0 with 1.10.0 as latest is reported
\* UPDATE AVAILABLE, ollama/ollama at 1.9.9 with 1.9.9 as latest is not.
C16_Witness ==
    /\ Compared
    /\ Len(comparison_results) = 2
    /\ comparison_results[1].status = "UPDATE AVAILABLE"
    /\ comparison_results[1].compose_version = Str_v1_9_0
    /\ comparison_results[1].latest_version = Tag_1_10_0
    /\ comparison_results[2].status = "UP TO DATE"
    /\ comparison_results[2].compose_version = Tag_1_9_9
    /\ comparison_results[2].latest_version = Tag_1_9_9

\* C17: when the compose version or the latest version of a repository of the
\* compose map does not parse as a version, the status is UNKNOWN, never
\* UP TO DATE.
C17_UnparsableIsUnknown ==
    Compared =>
        \A k \in 1..Len(comparison_results) :
            (/\ DictHas(compose_versions, comparison_results[k].container)
             /\ \/ ~IsPlainVersion(comparison_results[k].compose_version)
                \/ ~IsPlainVersion(comparison_results[k].latest_version)) =>
                comparison_results[k].status
                    \in {"UNKNOWN", "UNKNOWN (using latest tag)"}

\* ---------------------------------------------------------------------------
\* The main functions of the three rewriting scripts, step by step: backup,
\* load of the version JSON, load of the compose file, rewriting, output.
\* ---------------------------------------------------------------------------

\* A line that opens a flow sequence and never closes it: yaml.safe_load raises
\* on a document that holds it, reading the lines of the file does not.
Line_unclosed ==
    <<" ", " ", " ", " ", "c", "o", "m", "m", "a", "n", "d", ":", " ", "[">>

RunScripts ==
    {ScriptUpdate, ScriptComments}
      \cup {ScriptCombined(u, k) : u \in BOOLEAN, k \in BOOLEAN}
\* A document with an image key nested below a key of the service, and one
\* with an image key in a top-level block that is not the services block.
Doc_nested_image ==
    <<"s", "e", "r", "v", "i", "c", "e", "s", ":", "\n", " ", " ", "c", "a", "c", "h",
      "e", ":", "\n", " ", " ", " ", " ", "i", "m", "a", "g", "e", ":", " ", "r", "e",
      "d", "i", "s", ":", "7", ".", "2", ".", "4", "\n", " ", " ", " ", " ", "l", "a",
      "b", "e", "l", "s", ":", "\n", " ", " ", " ", " ", " ", " ", "i", "m", "a", "g",
      "e", ":", " ", "q", "d", "r", "a", "n", "t", "/", "q", "d", "r", "a", "n", "t",
      ":", "l", "a", "t", "e", "s", "t", "\n">>
Doc_image_outside ==
    <<"x", "-", "b", "a", "s", "e", ":", "\n", " ", " ", "b", "a", "s", "e", ":", "\n",
      " ", " ", " ", " ", "i", "m", "a", "g", "e", ":", " ", "q", "d", "r", "a", "n",
      "t", "/", "q", "d", "r", "a", "n", "t", ":", "l", "a", "t", "e", "s", "t", "\n",
      "s", "e", "r", "v", "i", "c", "e", "s", ":", "\n", " ", " ", "c", "a", "c", "h",
      "e", ":", "\n", " ", " ", " ", " ", "i", "m", "a", "g", "e", ":", " ", "r", "e",
      "d", "i", "s", ":", "7", ".", "2", ".", "4", "\n">>
RunDocuments ==
    {DocumentText(<<block>>, <<"\n">>) : block \in BlockPool}
      \cup {Doc_nested_image, Doc_image_outside}
InvalidDocuments ==
    {DocumentText(<<block \o <<Line_unclosed>> >>, <<"\n">>) :
        block \in {<<Line_latest>>, <<Line_pinned>>}}
RunVersionData == {cv \in VersionData : ~DictHas(cv, Str_redis)}

\* The state of the directory when a script is started: content is the text of
\* the compose file, container_versions what the version JSON holds.
InitRun ==
    /\ tags = <<>> /\ latest_version = Unset
    /\ IdleCollector
    /\ IdleChecker
    /\ script \in RunScripts
    /\ compose_file \in FileStates
    /\ json_file \in FileStates
    /\ content \in (IF compose_file = "ok" THEN RunDocuments
                    ELSE IF compose_file = "invalid" THEN InvalidDocuments
                    ELSE {<<>>})
    /\ container_versions \in (IF json_file = "ok" THEN RunVersionData ELSE {<<>>})
    /\ new_content = Unset /\ changes = <<>> /\ passes = 0
    /\ backup_made = FALSE /\ output_written = FALSE
    /\ exit_status = -1 /\ run_pc = "backup"
    /\ IdleFetcher /\ IdleMemoryFilter /\ IdleAutoMemory /\ IdleGemini

\* The copy of the compose file can succeed only when the file is there; it can
\* fail for other reasons as well (no space, no permission, no copy command).
CopyOutcomes == IF compose_file = "missing" THEN {FALSE} ELSE BOOLEAN

\* version_docker_compose.py lines 163-164, update_compose_versions.py lines
\* 121-122: shutil.copy2 raises when it cannot copy, and the script ends there.
RunBackupCopy2 ==
    /\ run_pc = "backup"
    /\ script.name \in {"update", "combined"}
    /\ \E copied \in CopyOutcomes :
         /\ backup_made' = copied
         /\ run_pc' = IF copied THEN "load_json" ELSE "done"
         /\ exit_status' = IF copied THEN exit_status ELSE 1
    /\ UNCHANGED <<compose_file, json_file, output_written, selVars, colVars, rwVars,
                   cmpVars, extVars>>

\* add_version_comments.py lines 108-109: os.system runs cp and its return
\* value is dropped, so main goes on whether the copy was made or not.
RunBackupCp ==
    /\ run_pc = "backup"
    /\ script.name = "comments"
    /\ \E copied \in CopyOutcomes : backup_made' = copied
    /\ run_pc' = "load_json"
    /\ UNCHANGED <<compose_file, json_file, output_written, exit_status, selVars,
                   colVars, rwVars, cmpVars, extVars>>

\* load_json_data of the three scripts: sys.exit(1) on any exception.
RunLoadJson ==
    /\ run_pc = "load_json"
    /\ run_pc' = IF json_file = "ok" THEN "load_compose" ELSE "done"
    /\ exit_status' = IF json_file = "ok" THEN exit_status ELSE 1
    /\ UNCHANGED <<compose_file, json_file, backup_made, output_written, selVars,
                   colVars, rwVars, cmpVars, extVars>>

\* What the script needs of the compose file: load_yaml_file and load_yaml_data
\* parse it, load_file_lines of add_version_comments.py only reads its lines.
ComposeLoads ==
    \/ compose_file = "ok"
    \/ compose_file = "invalid" /\ script.name = "comments"

\* load_file_content / load_yaml_data / load_yaml_file / load_file_lines:
\* sys.exit(1) on any exception.
RunLoadCompose ==
    /\ run_pc = "load_compose"
    /\ run_pc' = IF ComposeLoads THEN "rewrite" ELSE "done"
    /\ exit_status' = IF ComposeLoads THEN exit_status ELSE 1
    /\ UNCHANGED <<compose_file, json_file, backup_made, output_written, selVars,
                   colVars, rwVars, cmpVars, extVars>>

\* The rewriting function the script calls on what it loaded.
RewriteResult ==
    IF script.name = "update" THEN update_versions(content, container_versions)
    ELSE IF script.name = "comments"
    THEN add_version_comments(content, container_versions)
    ELSE add_version_comments_and_update_tags(content, container_versions,
                                              script.update_tags, script.skip_existing)

\* The call of the rewriting function; an exception in it ends the script with
\* a traceback and status 1.
RunRewrite ==
    /\ run_pc = "rewrite"
    /\ new_content' = RewriteResult[1]
    /\ changes' = RewriteResult[2]
    /\ passes' = passes + 1
    /\ run_pc' = IF RewriteResult[1] = Crashed THEN "done" ELSE "write"
    /\ exit_status' = IF RewriteResult[1] = Crashed THEN 1 ELSE exit_status
    /\ UNCHANGED <<content, container_versions, script, compose_file, json_file,
                   backup_made, output_written, selVars, colVars, cmpVars, extVars>>

\* The output file is written, the summary printed, and main returns.
RunWrite ==
    /\ run_pc = "write"
    /\ output_written' = TRUE
    /\ exit_status' = 0
    /\ run_pc' = "done"
    /\ UNCHANGED <<compose_file, json_file, backup_made, selVars, colVars, rwVars,
                   cmpVars, extVars>>

NextRun ==
    RunBackupCopy2 \/ RunBackupCp \/ RunLoadJson \/ RunLoadCompose \/ RunRewrite
      \/ RunWrite
SpecRun == InitRun /\ [][NextRun]_vars

\* C19: a script that has ended although the compose file or the version JSON
\* it reads was missing or could not be parsed has ended with a non-zero exit
\* status and has written no output (no rewritten document, no JSON report).
C19_BadInputIsFatal ==
    /\ (cmp_pc = "done" /\ compose_file # "ok") =>
           (exit_status # 0 /\ ~output_written)
    /\ (run_pc = "done" /\ (compose_file # "ok" \/ json_file # "ok")) =>
           (exit_status # 0 /\ ~output_written)

\* C20: in no run of a rewriting script is the output file written while the
\* backup copy of the compose file was not made.
C20_BackupBeforeOutput == output_written => backup_made

\* Some tag of the list matches the semantic-version pattern or, failing that,
\* the bare-numeric pattern.
HasVersionTag(ts) ==
    \E i \in 1..Len(ts) : is_semantic_version(ts[i]) \/ IsBareNumeric(ts[i])

\* The container the checker looked up last.
JustLookedUp == cmp_pc \in {"fetch", "extract"} /\ cmp_idx > 1
LastContainer == ContainersToCheck[cmp_idx - 1]

\* C21: the mapping of resolved versions holds an entry for a repository only
\* if the lookup answered and one of the fetched tags matched the semantic-
\* version or the bare-numeric pattern: in the collector (successful_images)
\* and in the checker (container_versions of its report).
C21_EntryOnlyForVersionTag ==
    /\ (JustRecorded /\ DictHas(results, LastImage)) =>
           (fetched.state = "tags" /\ HasVersionTag(fetched.tags))
    /\ (JustLookedUp /\ DictHas(latest_versions, LastContainer)) =>
           (fetched.state = "ok" /\ HasVersionTag(fetched.tags))

\* ---------------------------------------------------------------------------
\* The version JSON between the collector and the rewriting scripts.
\* ---------------------------------------------------------------------------

Str_successful_images ==
    <<"s", "u", "c", "c", "e", "s", "s", "f", "u", "l", "_", "i", "m", "a", "g", "e",
      "s">>
Str_failed_images == <<"f", "a", "i", "l", "e", "d", "_", "i", "m", "a", "g", "e", "s">>
Str_container_versions ==
    <<"c", "o", "n", "t", "a", "i", "n", "e", "r", "_", "v", "e", "r", "s", "i", "o",
      "n", "s">>

\* version_number_collector.py lines 181-186: what main dumps to
\* docker_versions.json (scan_date, a time stamp, is left out).
output_data ==
    << <<Str_successful_images, results>>, <<Str_failed_images, failed_images>> >>

\* version_data.get("container_versions", {}) of the rewriting scripts.
ContainerVersionsOf(version_data) ==
    IF DictHas(version_data, Str_container_versions)
    THEN DictGet(version_data, Str_container_versions)
    ELSE <<>>

\* version_docker_compose.py lines 89-97: the version the rewriter finds for
\* the image of a compose line, None when the container is no key of the map.
RewriterLookup(version_data, image) ==
    IF DictHas(ContainerVersionsOf(version_data), ContainerOfImage(image))
    THEN DictGet(ContainerVersionsOf(version_data), ContainerOfImage(image))
    ELSE NoneVal

\* C22: for every image the collector resolved, the rewriter that loads the
\* JSON the collector wrote finds the resolved version under the repository
\* part of the image.
C22_RewriterFindsResolved ==
    col_pc = "done" =>
        \A i \in 1..Len(results) :
            RewriterLookup(output_data, results[i][1]) = results[i][2]

\* The tag normalizes to the version of the tag that was returned, among the
\* candidates of the pass that gave the result (semantic or bare numeric).
SameVersionAsResult(tag) ==
    IF Parsable(latest_version)
    THEN Parsable(tag) /\ parse_version(tag) = parse_version(latest_version)
    ELSE /\ IsBareNumeric(tag) /\ version_parse(Strip(tag)).ok
         /\ version_parse(Strip(tag)) = version_parse(Strip(latest_version))
TiedWithResult == {i \in 1..Len(tags) : SameVersionAsResult(tags[i])}
LastOf(S) == CHOOSE i \in S : \A j \in S : j <= i

\* C27: the result is a function of the tag list, and of the tags that
\* normalize to the version of the result the last one of the list is returned.
C27_LastOfEqualVersions ==
    Selected =>
        /\ latest_version = find_latest_version(tags)
        /\ latest_version # NoneVal =>
               /\ TiedWithResult # {}
               /\ tags[LastOf(TiedWithResult)] = latest_version

\* C27 witness: ['1.10.0', 'v1.10.0', '1.9.9'] gives 'v1.10.0', the later of
\* the two spellings of the maximal version.
C27_Witness ==
    /\ tags = <<Tag_1_10_0, Tag_v1_10_0, Tag_1_9_9>>
    /\ latest_version = Tag_v1_10_0

\* The version data hold, for the repository, no value or a value that stands
\* for a failed or unknown resolution.
FailedResolution(cv, repository) ==
    \/ ~DictHas(cv, repository)
    \/ DictGet(cv, repository)
         \in {Str_unknown, Str_UNKNOWN, Str_error, Str_latest, NoneVal}

\* C26: in replace mode a service for whose repository the version data hold
\* 'unknown', 'UNKNOWN', 'error', 'latest' or nothing keeps its image line and
\* gets no tag-update record.
C26_NoFailedValueWritten ==
    ReplaceRan =>
        \A i \in 1..Len(InServices) :
            (/\ FailedResolution(container_versions, ContainerOfImage(InServices[i][2]))
             /\ ImageIdx(InLines, InServices[i][1]) # 0) =>
                SameImageLine(InServices[i][1]) /\ ~TagUpdateOf(InServices[i][2])

\* Line k of the input matches the image pattern and is the image line of no
\* service of the services block.
ForeignImageLine(k) ==
    /\ image_match(InLines[k])
    /\ \A i \in 1..Len(InServices) : ImageIdx(InLines, InServices[i][1]) # k

\* The line is in the output as it was, with no version comment above it.
KeptBare(line) ==
    /\ \E j \in 1..Len(OutLines) : OutLines[j] = line
    /\ \A j \in 1..Len(OutLines) : OutLines[j] = line => ~CommentedAt(OutLines, j)

\* C25: the line-oriented rewriters leave alone an image line that is not the
\* image line of a service of the services block (it is outside the block or
\* nested deeper): no comment, no rewrite, no change record.
C25_OnlyServiceImages ==
    (Wrote /\ script.name \in {"comments", "combined"}) =>
        \A k \in 1..Len(InLines) :
            ForeignImageLine(k) =>
                KeptBare(InLines[k]) /\ ~RecordAbout(image_group(InLines[k]))

\* ---------------------------------------------------------------------------
\* version_number_collector.py: the tag fetchers get_dockerhub_tags,
\* get_quayio_tags and get_ghcr_tags, against the answers of a registry.
\* ---------------------------------------------------------------------------

\* Most pages of a Docker Hub tag listing, and most tags of one page.
MaxPages == 3
MaxPageTags == 2
PageTagPool == {Tag_1_2_3, Tag_latest}
PageNames == UNION {[1..n -> PageTagPool] : n \in 0..MaxPageTags}
NoFlags(names) == [i \in 1..Len(names) |-> FALSE]

\* What requests.get gives for one URL: it raises (timeout, no connection), or
\* there is a response with a status code and, in its JSON, tag entries;
\* manifest holds the is_manifest_list flag of each entry (Quay only).
RaisingRequest == [raises |-> TRUE, status |-> 0, names |-> <<>>, manifest |-> <<>>]
Answer(code, names, flags) ==
    [raises |-> FALSE, status |-> code, names |-> names, manifest |-> flags]
ErrorAnswers(codes) == {RaisingRequest} \cup {Answer(c, <<>>, <<>>) : c \in codes}
HubResponses ==
    ErrorAnswers({404}) \cup {Answer(200, ns, NoFlags(ns)) : ns \in PageNames}
GhcrResponses ==
    ErrorAnswers({401, 404}) \cup {Answer(200, ns, NoFlags(ns)) : ns \in PageNames}
QuayResponses ==
    ErrorAnswers({404})
      \cup UNION {{Answer(200, ns, fl) : fl \in [1..Len(ns) -> BOOLEAN]} : ns \in PageNames}

\* The chain of pages the registry serves: page i names page i + 1 as 'next',
\* the last page names none. GHCR and Quay are asked for one page.
PageChains(f) ==
    IF f = "dockerhub" THEN UNION {[1..n -> HubResponses] : n \in 1..MaxPages}
    ELSE IF f = "ghcr" THEN {<<r>> : r \in GhcrResponses}
    ELSE {<<r>> : r \in QuayResponses}

\* requests.get raised, or response.raise_for_status() does (status >= 400).
RequestFails(response) == response.raises \/ response.status >= 400

\* data.get('next') of page i of a chain of n pages: 0 stands for None.
NextOf(i, n) == IF i < n THEN i + 1 ELSE 0

\* Mutant of dockerhub_page: a failing page ends the call with the tags
\* gathered so far.
dockerhub_page_partial(response, acc, next) ==
    IF RequestFails(response)
    THEN [tags |-> acc, url |-> 0, returned |-> TRUE, value |-> acc]
    ELSE [tags |-> acc \o response.names, url |-> next, returned |-> next = 0,
          value |-> acc \o response.names]

\* get_dockerhub_tags lines 49-58, one turn of the while loop on the response
\* to the request of the current url: the new tags and url, whether the
\* function has returned, and what.
dockerhub_page(response, acc, next) ==
    IF RequestFails(response)
    THEN [tags |-> acc, url |-> 0, returned |-> TRUE, value |-> NoneVal]
    ELSE [tags |-> acc \o response.names, url |-> next, returned |-> next = 0,
          value |-> acc \o response.names]

\* The names of the entries that are no manifest list.
RECURSIVE NotManifestLists(_, _)
NotManifestLists(names, flags) ==
    IF names = <<>> THEN <<>>
    ELSE (IF flags[1] THEN <<>> ELSE <<names[1]>>)
           \o NotManifestLists(Tail(names), Tail(flags))

\* get_quayio_tags lines 64-73.
get_quayio_tags(response) ==
    IF RequestFails(response) THEN NoneVal
    ELSE NotManifestLists(response.names, response.manifest)

\* Mutant of get_ghcr_tags: status 401 gives an empty tag list.
get_ghcr_tags_401empty(response) ==
    IF response.raises THEN NoneVal
    ELSE IF response.status = 401 THEN <<>>
    ELSE IF RequestFails(response) THEN NoneVal
    ELSE response.names

\* get_ghcr_tags lines 84-98.
get_ghcr_tags(response) ==
    IF response.raises THEN NoneVal
    ELSE IF response.status = 401 THEN NoneVal
    ELSE IF RequestFails(response) THEN NoneVal
    ELSE response.names

InitFetch ==
    /\ tags = <<>> /\ latest_version = Unset
    /\ IdleCollector /\ IdleRewriter /\ IdleChecker /\ IdleRun
    /\ IdleMemoryFilter /\ IdleAutoMemory /\ IdleGemini
    /\ fetcher \in {"dockerhub", "ghcr", "quay"}
    /\ pages \in PageChains(fetcher)
    /\ url = 1
    /\ fetch_tags = <<>>
    /\ requested = [i \in 1..Len(pages) |-> 0]
    /\ fetch_outcome = Unset
    /\ fetch_pc = "request"

\* One turn of the loop of get_dockerhub_tags: the request of the page at url.
HubRequest ==
    /\ fetch_pc = "request" /\ fetcher = "dockerhub"
    /\ url # 0
    /\ requested' = [requested EXCEPT ![url] = @ + 1]
    /\ LET turn == dockerhub_page(pages[url], fetch_tags, NextOf(url, Len(pages)))
       IN /\ fetch_tags' = turn.tags
          /\ url' = turn.url
          /\ fetch_pc' = IF turn.returned THEN "done" ELSE "request"
          /\ fetch_outcome' = IF turn.returned THEN turn.value ELSE fetch_outcome
    /\ UNCHANGED <<fetcher, pages, selVars, colVars, rwVars, cmpVars, runVars, memVars,
                   autoVars, gemVars>>

\* A call of a fetcher that makes one request.
SingleRequest(f, value) ==
    /\ fetch_pc = "request" /\ fetcher = f
    /\ requested' = [requested EXCEPT ![url] = @ + 1]
    /\ fetch_outcome' = value
    /\ fetch_pc' = "done"
    /\ UNCHANGED <<fetcher, pages, url, fetch_tags, selVars, colVars, rwVars, cmpVars,
                   runVars, memVars, autoVars, gemVars>>

GhcrRequest == SingleRequest("ghcr", get_ghcr_tags(pages[url]))
QuayRequest == SingleRequest("quay", get_quayio_tags(pages[url]))

NextFetch == HubRequest \/ GhcrRequest \/ QuayRequest
SpecFetch == InitFetch /\ [][NextFetch]_vars
\* A call that has been made runs on: no step of it waits for ever (every
\* request has a timeout of 15 seconds).
SpecFetchLive == SpecFetch /\ WF_vars(NextFetch)

\* The pages the call has requested, and whether one of them failed.
RequestedPages == {i \in 1..Len(pages) : requested[i] > 0}
FetchFailed == \E i \in RequestedPages : RequestFails(pages[i])

RECURSIVE NamesFrom(_, _)
NamesFrom(ps, i) == IF i > Len(ps) THEN <<>> ELSE ps[i].names \o NamesFrom(ps, i + 1)

\* No page is requested twice; the page to request next has not been
\* requested and all before it have, once; a finished call has returned the
\* names of all pages in page order when no page failed, and None, with no
\* page behind the failing one requested, when one did.
PagedFetchSafe ==
    fetcher = "dockerhub" =>
        /\ \A i \in 1..Len(pages) : requested[i] <= 1
        /\ fetch_pc = "request" =>
               /\ url \in 1..Len(pages)
               /\ RequestedPages = 1..(url - 1)
               /\ \A i \in RequestedPages : ~RequestFails(pages[i])
        /\ (fetch_pc = "done" /\ ~FetchFailed) =>
               /\ RequestedPages = 1..Len(pages)
               /\ fetch_outcome = NamesFrom(pages, 1)
        /\ (fetch_pc = "done" /\ FetchFailed) =>
               /\ fetch_outcome = NoneVal
               /\ \E k \in 1..Len(pages) :
                      /\ RequestFails(pages[k])
                      /\ RequestedPages = 1..k

MaxCycles == 3
MaxBuffer == 5
MaxStored == 2

\* What get_last_user_message gives: the text of the last user message, or
\* None when the body holds no user message.
Msg_hello == <<"h", "i">>
LastMessages == {Msg_hello, NoneVal}

InitMemoryFilter ==
    /\ tags = <<>> /\ latest_version = Unset
    /\ IdleCollector /\ IdleRewriter /\ IdleChecker /\ IdleRun
    /\ IdleFetcher /\ IdleAutoMemory /\ IdleGemini
    /\ user_messages = <<>>
    /\ STORE_CYCLES = 3
    /\ stored = <<>>
    /\ last_call = "init"

\* " ".join(self.user_messages) raises TypeError when an element is None.
JoinRaises(messages) == \E i \in 1..Len(messages) : messages[i] = NoneVal

\* inlet lines 110-122: self.user_messages after the call. The exception of
\* the join leaves inlet through its except branch, before the clear.
inlet_buffer(messages, last_message, store_cycles) ==
    IF Len(messages) + 1 = store_cycles /\ ~JoinRaises(Append(messages, last_message))
    THEN <<>>
    ELSE Append(messages, last_message)

\* inlet lines 113-116 with add_memory_thread (lines 172-178): the texts
\* self.m.add has taken; an exception of add is caught in add_memory_thread.
inlet_stored(texts, messages, last_message, store_cycles, add_raises) ==
    IF /\ Len(messages) + 1 = store_cycles
       /\ ~JoinRaises(Append(messages, last_message))
       /\ ~add_raises
    THEN Append(texts, Append(messages, last_message))
    ELSE texts

\* One call of inlet with a body that holds messages. What self.m.search does
\* afterwards (lines 124-166) changes the body only.
Inlet ==
    /\ last_call # "none"
    /\ Len(user_messages) < MaxBuffer /\ Len(stored) < MaxStored
    /\ \E last_message \in LastMessages, add_raises \in BOOLEAN :
         /\ user_messages' = inlet_buffer(user_messages, last_message, STORE_CYCLES)
         /\ stored' = inlet_stored(stored, user_messages, last_message, STORE_CYCLES,
                                   add_raises)
    /\ last_call' = "inlet"
    /\ UNCHANGED <<STORE_CYCLES, selVars, colVars, rwVars, cmpVars, runVars, fetchVars,
                   autoVars, gemVars>>

\* One call of inlet with a body without 'messages': body["messages"] raises
\* and inlet returns the body from its except branch.
InletBadBody ==
    /\ last_call # "none"
    /\ last_call' = "inlet"
    /\ UNCHANGED <<user_messages, STORE_CYCLES, stored, selVars, colVars, rwVars,
                   cmpVars, runVars, fetchVars, autoVars, gemVars>>

\* The valves are set to new values and on_valves_updated is called.
ValvesUpdated ==
    /\ last_call # "none"
    /\ \E n \in 1..MaxCycles : STORE_CYCLES' = n
    /\ last_call' = "valves"
    /\ UNCHANGED <<user_messages, stored, selVars, colVars, rwVars, cmpVars, runVars,
                   fetchVars, autoVars, gemVars>>

NextMemoryFilter == Inlet \/ InletBadBody \/ ValvesUpdated
SpecMemoryFilter == InitMemoryFilter /\ [][NextMemoryFilter]_vars

\* C28: after every call of inlet the buffer holds fewer than STORE_CYCLES
\* messages.
C28_BufferBelowStoreCycles ==
    last_call = "inlet" => Len(user_messages) < STORE_CYCLES

\* ---------------------------------------------------------------------------
\* backend/ilan-functions/auto-memory.py: Filter.store_memory. The memories of
\* the user are the ids in the store; a call looks up related memories, asks
\* the model for a consolidated list, deletes the related memories that passed
\* the distance filter and adds the items of the list.
\* ---------------------------------------------------------------------------

\* Ids the store gives out, items of a consolidated list, and related memories
\* a query returns (valve related_memories_n).
MaxMemoryId == 5
MaxItems == 2
MaxRelated == 2

\* An item of the consolidated list: a non-blank string, a blank string, or a
\* value that is not a string.
ItemKinds == {"text", "blank", "nonstr"}
ItemLists == UNION {[1..n -> ItemKinds] : n \in 0..MaxItems}

\* What query_openai_api and ast.literal_eval give: an exception, a value that
\* is not a list, or a list.
Consolidations ==
    {[kind |-> k, items |-> <<>>] : k \in {"raises", "notlist"}}
      \cup {[kind |-> "list", items |-> l] : l \in ItemLists}

InitAutoMemory ==
    /\ tags = <<>> /\ latest_version = Unset
    /\ IdleCollector /\ IdleRewriter /\ IdleChecker /\ IdleRun
    /\ IdleFetcher /\ IdleMemoryFilter /\ IdleGemini
    /\ memories = {}
    /\ next_id = 1
    /\ deleted = {}
    /\ store_result = [success |-> FALSE, added_memories |-> 0, called |-> FALSE]

\* Lines 415-423: the related memories below related_memories_dist.
filtered_data(related, near) == related \cap near

\* Lines 456-460: the ids delete_memory_by_id has removed; a delete that
\* raises is logged and the loop goes on.
DeletedIds(consolidated, filtered, delete_raises) ==
    IF consolidated.kind = "list" THEN filtered \ delete_raises ELSE {}

\* Lines 463-474: the positions of the list that add_memory has stored.
AddedItems(consolidated, add_raises) ==
    {i \in 1..Len(consolidated.items) :
        consolidated.items[i] = "text" /\ i \notin add_raises}

\* Lines 476-479 and 481-482: the dictionary store_memory returns.
StoreResult(consolidated, added_count) ==
    [success |-> consolidated.kind = "list" /\ added_count # 0,
     added_memories |-> IF consolidated.kind = "list" THEN added_count ELSE 0,
     called |-> TRUE]

\* A call that ends before the consolidation: invalid memory input (lines
\* 363-364), or an exception of extract_wisdom or query_memory (lines 484-485).
StoreMemoryRejected ==
    /\ store_result' = [success |-> FALSE, added_memories |-> 0, called |-> TRUE]
    /\ deleted' = {}
    /\ UNCHANGED <<memories, next_id, selVars, colVars, rwVars, cmpVars, runVars,
                   fetchVars, memVars, gemVars>>

\* A call that reaches the consolidation (lines 446-482).
StoreMemory ==
    \E related \in SUBSET memories, consolidated \in Consolidations,
       add_raises \in SUBSET (1..MaxItems) :
      /\ Cardinality(related) <= MaxRelated
      /\ \E near \in SUBSET related, delete_raises \in SUBSET related :
           LET filtered == filtered_data(related, near)
               gone == DeletedIds(consolidated, filtered, delete_raises)
               added_count == Cardinality(AddedItems(consolidated, add_raises))
           IN  /\ next_id + added_count - 1 <= MaxMemoryId
               /\ memories' = (memories \ gone)
                                \cup (next_id .. (next_id + added_count - 1))
               /\ next_id' = next_id + added_count
               /\ deleted' = gone
               /\ store_result' = StoreResult(consolidated, added_count)
      /\ UNCHANGED <<selVars, colVars, rwVars, cmpVars, runVars, fetchVars, memVars,
                     gemVars>>

NextAutoMemory == StoreMemoryRejected \/ StoreMemory
SpecAutoMemory == InitAutoMemory /\ [][NextAutoMemory]_vars

\* C29: a call of store_memory that returns success False has deleted no
\* stored memory of the user.
C29_NoLossOnFailure ==
    (store_result.called /\ ~store_result.success) => deleted = {}

\* ---------------------------------------------------------------------------
\* backend/ilan-functions/thinking_gemini.py: Pipe.pipe, the branch of a
\* thinking model called with an event emitter. The request and the
\* thinking_timer task run on one event loop; an action is the run of one of
\* them from one await to the next. The emitter takes every event it is called
\* with.
\* ---------------------------------------------------------------------------

\* Sleeps the timer finishes at most during one request.
MaxTicks == 3

StatusEvent(message, done) == [type |-> "status", description |-> message, done |-> done]
Status_thinking == StatusEvent("Thinking...", FALSE)
Status_elapsed == StatusEvent("Thinking... (elapsed)", FALSE)
Status_completed == StatusEvent("Thinking completed", TRUE)
\* emit_thoughts: the message event with the thoughts.
Message_thoughts == [type |-> "message", description |-> "thoughts", done |-> FALSE]

\* What generate_content gives: an answer alone, thoughts and an answer, or
\* thoughts of white space and an answer.
Responses == {"answer", "thoughts", "blank_thoughts"}

InitGemini ==
    /\ tags = <<>> /\ latest_version = Unset
    /\ IdleCollector /\ IdleRewriter /\ IdleChecker /\ IdleRun
    /\ IdleFetcher /\ IdleMemoryFilter /\ IdleAutoMemory
    /\ pipe_pc = "start"
    /\ timer_pc = "none"
    /\ emitter \in {"async", "sync"}
    /\ events = <<>>
    /\ callbacks = <<>>
    /\ ticks = 0
    /\ pipe_result = "none"

\* emit_status with a coroutine function: the emitter is awaited.
emit_status_awaited(received, event_emitter, event) ==
    IF event_emitter = "async" THEN Append(received, event) ELSE received

\* emit_status with a plain function: loop.call_soon_threadsafe queues the
\* call.
emit_status_queued(queue, event_emitter, event) ==
    IF event_emitter = "sync" THEN Append(queue, event) ELSE queue

\* thinking_timer_task.cancel() has been called.
CancelRequested == pipe_pc \in {"awaiting_timer", "done"}

\* Lines 400-425: the initial status, start_time, the timer task is created
\* and generate_content is handed to the executor.
PipeStart ==
    /\ pipe_pc = "start"
    /\ events' = emit_status_awaited(events, emitter, Status_thinking)
    /\ callbacks' = emit_status_queued(callbacks, emitter, Status_thinking)
    /\ timer_pc' = "created"
    /\ pipe_pc' = "generating"
    /\ UNCHANGED <<emitter, ticks, pipe_result>>
    /\ UNCHANGED <<selVars, colVars, rwVars, cmpVars, runVars, fetchVars, memVars,
                   autoVars>>

\* Lines 427-441 and the finally block up to 'await thinking_timer_task':
\* generate_content has returned. emit_thoughts awaits a coroutine function;
\* a plain function is called on the spot and the await of its result raises
\* TypeError, which emit_thoughts catches.
GenerationReturns ==
    /\ pipe_pc = "generating"
    /\ \E response \in Responses :
         IF response = "thoughts" /\ emitter = "async"
         THEN /\ pipe_pc' = "thoughts"
              /\ UNCHANGED <<events, pipe_result>>
         ELSE /\ pipe_pc' = "awaiting_timer"
              /\ pipe_result' = "answer"
              /\ events' = IF response = "thoughts"
                           THEN Append(events, Message_thoughts)
                           ELSE events
    /\ UNCHANGED <<timer_pc, emitter, callbacks, ticks>>
    /\ UNCHANGED <<selVars, colVars, rwVars, cmpVars, runVars, fetchVars, memVars,
                   autoVars>>

\* Lines 75 and 441 and the finally block up to 'await thinking_timer_task':
\* the awaited emitter has taken the thoughts.
ThoughtsEmitted ==
    /\ pipe_pc = "thoughts"
    /\ events' = Append(events, Message_thoughts)
    /\ pipe_pc' = "awaiting_timer"
    /\ pipe_result' = "answer"
    /\ UNCHANGED <<timer_pc, emitter, callbacks, ticks>>
    /\ UNCHANGED <<selVars, colVars, rwVars, cmpVars, runVars, fetchVars, memVars,
                   autoVars>>

\* Lines 443-446 and the finally block up to 'await thinking_timer_task':
\* generate_content has raised, or the response has no candidate or no part.
GenerationRaises ==
    /\ pipe_pc = "generating"
    /\ pipe_pc' = "awaiting_timer"
    /\ pipe_result' = "error"
    /\ UNCHANGED <<timer_pc, emitter, events, callbacks, ticks>>
    /\ UNCHANGED <<selVars, colVars, rwVars, cmpVars, runVars, fetchVars, memVars,
                   autoVars>>

\* Mutant of PipeFinalStatus: the final status is emitted without awaiting the
\* cancelled timer task.
PipeFinalStatus_noawait ==
    /\ pipe_pc = "awaiting_timer"
    /\ events' = emit_status_awaited(events, emitter, Status_completed)
    /\ callbacks' = emit_status_queued(callbacks, emitter, Status_completed)
    /\ pipe_pc' = "done"
    /\ UNCHANGED <<timer_pc, emitter, ticks, pipe_result>>
    /\ UNCHANGED <<selVars, colVars, rwVars, cmpVars, runVars, fetchVars, memVars,
                   autoVars>>

\* Lines 458-475: the timer task has ended, the final status is emitted and
\* the request returns.
PipeFinalStatus ==
    /\ pipe_pc = "awaiting_timer"
    /\ timer_pc = "done"
    /\ events' = emit_status_awaited(events, emitter, Status_completed)
    /\ callbacks' = emit_status_queued(callbacks, emitter, Status_completed)
    /\ pipe_pc' = "done"
    /\ UNCHANGED <<timer_pc, emitter, ticks, pipe_result>>
    /\ UNCHANGED <<selVars, colVars, rwVars, cmpVars, runVars, fetchVars, memVars,
                   autoVars>>

\* Lines 353-358: the timer task starts and sleeps.
TimerStart ==
    /\ timer_pc = "created"
    /\ ~CancelRequested
    /\ timer_pc' = "sleeping"
    /\ UNCHANGED <<pipe_pc, emitter, events, callbacks, ticks, pipe_result>>
    /\ UNCHANGED <<selVars, colVars, rwVars, cmpVars, runVars, fetchVars, memVars,
                   autoVars>>

\* Lines 358-367: a sleep is over and the timer emits the elapsed time. A plain
\* emitter is queued and the timer sleeps again; a coroutine function is
\* awaited.
TimerTick ==
    /\ timer_pc = "sleeping"
    /\ ~CancelRequested
    /\ ticks < MaxTicks
    /\ ticks' = ticks + 1
    /\ callbacks' = emit_status_queued(callbacks, emitter, Status_elapsed)
    /\ timer_pc' = IF emitter = "async" THEN "emitting" ELSE "sleeping"
    /\ UNCHANGED <<pipe_pc, emitter, events, pipe_result>>
    /\ UNCHANGED <<selVars, colVars, rwVars, cmpVars, runVars, fetchVars, memVars,
                   autoVars>>

\* Lines 384-385 and 358: the awaited emitter has taken the status of the
\* timer, which sleeps again.
TimerEmitted ==
    /\ timer_pc = "emitting"
    /\ ~CancelRequested
    /\ events' = Append(events, Status_elapsed)
    /\ timer_pc' = "sleeping"
    /\ UNCHANGED <<pipe_pc, emitter, callbacks, ticks, pipe_result>>
    /\ UNCHANGED <<selVars, colVars, rwVars, cmpVars, runVars, fetchVars, memVars,
                   autoVars>>

\* Lines 368-370: CancelledError reaches the timer task, before its first
\* step, in its sleep, or in the awaited emitter, which has taken the status
\* or not; emit_status lets CancelledError pass and the task ends.
TimerCancelled ==
    /\ CancelRequested
    /\ timer_pc \in {"created", "sleeping", "emitting"}
    /\ timer_pc' = "done"
    /\ \/ UNCHANGED events
       \/ /\ timer_pc = "emitting"
          /\ events' = Append(events, Status_elapsed)
    /\ UNCHANGED <<pipe_pc, emitter, callbacks, ticks, pipe_result>>
    /\ UNCHANGED <<selVars, colVars, rwVars, cmpVars, runVars, fetchVars, memVars,
                   autoVars>>

\* The event loop runs the oldest call queued by call_soon_threadsafe.
RunCallback ==
    /\ callbacks # <<>>
    /\ events' = Append(events, Head(callbacks))
    /\ callbacks' = Tail(callbacks)
    /\ UNCHANGED <<pipe_pc, timer_pc, emitter, ticks, pipe_result>>
    /\ UNCHANGED <<selVars, colVars, rwVars, cmpVars, runVars, fetchVars, memVars,
                   autoVars>>

NextGemini ==
    \/ PipeStart \/ GenerationReturns \/ ThoughtsEmitted \/ GenerationRaises
    \/ PipeFinalStatus
    \/ TimerStart \/ TimerTick \/ TimerEmitted \/ TimerCancelled
    \/ RunCallback
SpecGemini == InitGemini /\ [][NextGemini]_vars
\* The event loop runs a task that is ready and a call that is queued: the
\* cancelled timer, the request awaiting it, the queued calls of the emitter.
SpecGeminiLive ==
    SpecGemini /\ WF_vars(TimerCancelled) /\ WF_vars(PipeFinalStatus)
               /\ WF_vars(RunCallback)

\* The events in the order the emitter receives them: those received, then the
\* queued calls.
Emitted == events \o callbacks
DoneStatuses == {i \in 1..Len(Emitted) : Emitted[i].type = "status" /\ Emitted[i].done}

\* C30 (safety part): the final status is emitted only after the timer task
\* has been cancelled and has ended; at most one status with done=True is
\* emitted, no status follows it, and a request that has returned has emitted
\* exactly one.
FinalStatusSafe ==
    /\ Cardinality(DoneStatuses) <= 1
    /\ DoneStatuses # {} => timer_pc = "done" /\ pipe_pc = "done"
    /\ \A i \in DoneStatuses : \A j \in (i + 1)..Len(Emitted) :
         Emitted[j].type # "status"
    /\ pipe_pc = "done" => Cardinality(DoneStatuses) = 1

\* C30: on every path through the thinking branch, a normal return or an
\* exception of the generation, the timer task is cancelled and awaited before
\* the final status: exactly one status with done=True is emitted, it is the
\* last status of the request, no elapsed-time status follows it, and every
\* request that has left the generation gets there.
C30_FinalStatusLast ==
    /\ [](FinalStatusSafe)
    /\ (pipe_pc = "awaiting_timer") ~> (pipe_pc = "done" /\ callbacks = <<>>)

\* A request whose generation raised while the timer was awaiting the emitter
\* has returned, the elapsed-time status before the final one.
C30_Witness ==
    /\ pipe_pc = "done" /\ pipe_result = "error" /\ callbacks = <<>>
    /\ ticks >= 1
    /\ Len(events) >= 3
    /\ events[Len(events)] = Status_completed
    /\ events[Len(events) - 1] = Status_elapsed

====
